---- MODULE Spec2Model ----
(***************************************************************************)
(* alertmanager-alert-sync: the reconciliation engine                      *)
(* (internal/sync/reconciler.go), the metrics publisher                    *)
(* (internal/metrics/exporter.go) and the silence webhook handler          *)
(* (internal/server/handlers.go), with Alertmanager (AM) and Grafana IRM   *)
(* as the environment.                                                     *)
(***************************************************************************)
EXTENDS Integers, Sequences, FiniteSets, TLC

(* ---------------------------- bounds ----------------------------------- *)
MaxAlerts == 2
MaxGroups == 2
MaxCycles == 2
\* failed fetch stages, and failed ResolveAlertGroup calls, before the
\* upstreams answer for good
MaxFailures == 1
\* alerts in the payload of a webhook event
MaxWebhookAlerts == 2
\* cached lookups made in a run of the two clients
MaxLookups == 3
\* /webhook requests served in a run
MaxRequests == 2
\* ticks of the loop's ticker
MaxTicks == 3
\* characters of RECONCILE_INTERVAL
MaxIntervalLen == 2
\* alert groups in the body of an IRM response
MaxBodyGroups == 2

(* ------------------------ environment data ----------------------------- *)
FPNames == <<"f1", "f2", "f3", "f4">>
GroupIds == <<"g1", "g2", "g3", "g4">>

\* status of an AM alert: active, silenced, or suppressed by inhibition only
AlertKinds ==
  { [state |-> "active",     silencedBy |-> <<>>,     inhibitedBy |-> <<>>],
    [state |-> "suppressed", silencedBy |-> <<"s1">>, inhibitedBy |-> <<>>],
    [state |-> "suppressed", silencedBy |-> <<>>,     inhibitedBy |-> <<"f9">>] }

\* labels and annotations of the i-th alert: odd alerts carry a severity
\* label and no annotation, even alerts a summary annotation and no severity
AlertLabels(i) ==
  IF i % 2 = 1 THEN [alertname |-> "X", severity |-> "warn"]
  ELSE [alertname |-> "Y"]

AlertAnnotations(i) ==
  IF i % 2 = 1 THEN [x \in {} |-> ""] ELSE [summary |-> "disk full"]

MkAlert(i, k) ==
  [fingerprint |-> FPNames[i], state |-> k.state,
   silencedBy |-> k.silencedBy, inhibitedBy |-> k.inhibitedBy,
   labels |-> AlertLabels(i), annotations |-> AlertAnnotations(i)]

\* exporter.go:102-103: ALERTMANAGER_ALERTS_LABELS and
\* ALERTMANAGER_ALERTS_ANNOTATIONS as parsed at start-up
alertLabels == <<"severity">>
alertAnnotations == <<"summary">>

\* exporter.go:106
defaultLabels ==
  <<"alertname", "fingerprint", "suppressed", "acknowledged_by", "resolved_by",
    "silenced_by", "inhibited_by">>

\* exporter.go:109-110: the label names the gauge vector is created with
allLabels == defaultLabels \o alertLabels \o alertAnnotations

\* the alerts AM can hold: fingerprints are unique within one snapshot
AlertSnapshots ==
  UNION { { [i \in 1..n |-> MkAlert(i, ks[i])] : ks \in [1..n -> AlertKinds] }
          : n \in 0..MaxAlerts }

GroupKinds ==
  { [state |-> "firing",   acknowledgedBy |-> "",   resolvedBy |-> ""],
    [state |-> "resolved", acknowledgedBy |-> "u1", resolvedBy |-> "u1"] }

\* fingerprints of last_alert.payload.alerts of the i-th group: odd groups
\* hold f1, an alert without fingerprint and f2, even groups hold f1 alone
Members(i) == IF i % 2 = 1 THEN <<"f1", "", "f2">> ELSE <<"f1">>

MkGroup(i, k) ==
  [id |-> GroupIds[i], state |-> k.state, acknowledgedBy |-> k.acknowledgedBy,
   resolvedBy |-> k.resolvedBy, fingerprints |-> Members(i)]

GroupSnapshots ==
  UNION { { [i \in 1..n |-> MkGroup(i, ks[i])] : ks \in [1..n -> GroupKinds] }
          : n \in 0..MaxGroups }

\* upstream records behind the two cached lookups
SilenceCreatedBy == [s \in {"s1"} |-> "alice"]
UserEmail == [u \in {"u1"} |-> "u1@co"]

Runners == {"loop", "http"}

EmptyCache == [x \in {} |-> ""]
NoFetch == [full |-> FALSE, err |-> FALSE, payload |-> <<>>]

(* ----------------------------- state ----------------------------------- *)
VARIABLES
  amAlerts,                      \* AM: the current alerts
  irmGroups,                     \* IRM: the current alert groups
  pc,                            \* per runner: position of ReconcileAndResolveOptimized
  alertsChan, grafanaChan,       \* per runner: the two fetch result channels
  exportPc, exportIdx,           \* per runner: the metrics-export goroutine
  resolvePc, inconsistencies, resolveIdx, resolvedCount, \* the reconcile goroutine
  resultsChan,                   \* per runner: buffered operation results
  calls,                         \* per runner: ResolveAlertGroup calls of the cycle
  reconciliationTotal, reconciliationFailuresTotal, inconsistenciesFound,
  inconsistenciesResolved, inconsistenciesFailedResolve,
  lastReconciliationSuccess, alertExportTotal, alertExportFailuresTotal,
  alertStateGauge,               \* the alert_state series
  silenceCache, userCache,       \* the two caches
  resolveSucceeded, resolveFailed, \* IRM side: resolve requests answered 2xx / not
  lastComplete,                  \* fingerprints of the last completed publish
  scraped,                       \* fingerprints of the series the last /metrics scrape returned
  webhookPc,                     \* position of the /webhook request being served
  request,                       \* the /webhook request being served
  response,                      \* the response written to it
  unsilenceCalls,                \* UnsilenceAlertGroup calls the request caused
  silenceCalls,                  \* CreateSilence calls the request caused
  silencesCreated,               \* HandleWebhook: silencesCreated
  alertIdx,                      \* HandleWebhook: position of the loop over the alerts
  untilTime,                     \* HandleWebhook: the parsed event.until
  amSilences,                    \* AM: silence id -> created_by, as stored upstream
  irmUsers,                      \* IRM: user id -> email, as stored upstream
  lookups,                       \* the GetSilence / GetUser calls made so far
  cacheMutex,                    \* per client: holders of its cacheMutex
  tickerC,                       \* ticks waiting in ticker.C (a channel of capacity 1)
  ticksConsumed,                 \* ticks the loop has received from ticker.C
  ticksDropped,                  \* ticks the ticker dropped because ticker.C was full
  loopStarted,                   \* the loop has made its run at startup
  ctxDone,                       \* per runner: the context of its cycle is cancelled
  prevFailed,                    \* per runner: fingerprints whose resolve call failed in its previous cycle
  amStore,                       \* AM: the silences created through the API, in order
  irmSilenced,                   \* IRM: ids of the alert groups that are silenced
  served,                        \* /webhook requests received so far
  environ,                       \* the environment variables of the process
  mainPc,                        \* position of main
  grafanaClient,                 \* main: grafanaClient is not nil
  webhookHandler,                \* main: webhookHandler is not nil
  loopsSpawned,                  \* go startOptimizedReconciliationLoop statements executed
  mux,                           \* the patterns registered on the ServeMux
  listening,                     \* http.ListenAndServe has opened the listener
  inFlight,                      \* per runner: ResolveAlertGroup requests sent and not yet answered
  irmBody,                       \* IRM: the body of an alert-groups response
  response200                    \* GetAllAlertGroups: what it returned for irmBody

env == <<amAlerts, irmGroups>>
fetchVars == <<alertsChan, grafanaChan>>
exportVars == <<exportPc, exportIdx>>
resolveVars == <<resolvePc, inconsistencies, resolveIdx, resolvedCount, calls>>
reconCounters == <<reconciliationTotal, reconciliationFailuresTotal,
                   inconsistenciesFound, lastReconciliationSuccess>>
itemCounters == <<inconsistenciesResolved, inconsistenciesFailedResolve>>
exportCounters == <<alertExportTotal, alertExportFailuresTotal>>
caches == <<silenceCache, userCache>>
irmLog == <<resolveSucceeded, resolveFailed>>
scrapeVars == <<scraped>>
webhookVars == <<webhookPc, request, response, unsilenceCalls, silenceCalls,
                 silencesCreated, alertIdx, untilTime, amStore, irmSilenced,
                 served>>
lookupVars == <<amSilences, irmUsers, lookups, cacheMutex>>
startupVars == <<environ, mainPc, grafanaClient, webhookHandler, loopsSpawned,
                 mux, listening>>
decodeVars == <<irmBody, response200>>
tickerVars == <<tickerC, ticksConsumed, ticksDropped, loopStarted, startupVars,
                decodeVars>>
engineVars == <<env, pc, fetchVars, exportVars, resolveVars, resultsChan,
                reconCounters, itemCounters, exportCounters, alertStateGauge,
                caches, irmLog, lastComplete, scrapeVars, lookupVars,
                tickerVars, ctxDone, prevFailed, inFlight>>

vars == <<engineVars, webhookVars>>


(* ------------------------ pure computations ---------------------------- *)
Range(seq) == { seq[i] : i \in DOMAIN seq }

\* mutant: the filter keeps the alerts that still fire
IsSilencedFiring_Active(alert) ==
  alert.state = "active" /\ Len(alert.silencedBy) > 0

\* reconciler.go:216-218: suppressed and silenced by at least one silence
IsSilencedFiring(alert) ==
  alert.state = "suppressed" /\ Len(alert.silencedBy) > 0

\* reconciler.go:214-221
SilencedAlerts(alerts) == SelectSeq(alerts, IsSilencedFiring)

\* mutant: resolved groups are indexed too
GroupEligible_Any(group) == group.state \in {"firing", "resolved"}

\* reconciler.go:228: groups that enter the reconciliation index
GroupEligible(group) == group.state # "resolved"

\* mutant: a fingerprint that has an entry keeps it
PutMembers_KeepFirst(m, group, val) ==
  LET fps == Range(group.fingerprints) \ {""}
  IN  [f \in (DOMAIN m) \cup fps |-> IF f \in DOMAIN m THEN m[f] ELSE val]

\* one group's members written into a fingerprint map (empty fingerprints skipped)
PutMembers(m, group, val) ==
  LET fps == Range(group.fingerprints) \ {""}
  IN  [f \in (DOMAIN m) \cup fps |-> IF f \in fps THEN val ELSE m[f]]

RECURSIVE FoldGroups(_, _, _, _)
FoldGroups(groups, i, m, forReconcile) ==
  IF i > Len(groups) THEN m
  ELSE FoldGroups(groups, i + 1,
         IF forReconcile
           THEN (IF GroupEligible(groups[i])
                   THEN PutMembers(m, groups[i], groups[i].id) ELSE m)
           ELSE PutMembers(m, groups[i], groups[i]),
         forReconcile)

\* reconciler.go:226-235: fingerprint -> id of the last non-resolved group holding it
GrafanaFingerprints(groups) == FoldGroups(groups, 1, EmptyCache, TRUE)

\* mutant: the publish-side index leaves out the resolved groups
GrafanaMap_NonResolved(groups) ==
  FoldGroups(SelectSeq(groups, GroupEligible), 1, EmptyCache, FALSE)

\* exporter.go:249-257: fingerprint -> the last group holding it, any state
GrafanaMap(groups) == FoldGroups(groups, 1, EmptyCache, FALSE)

\* mutant: one inconsistency is kept per target group
FindInconsistencies_OnePerGroup(alerts, groups) ==
  LET index == GrafanaFingerprints(groups)
      sel == SelectSeq(SilencedAlerts(alerts),
                       LAMBDA a : a.fingerprint \in DOMAIN index)
      kept[n \in 0..Len(sel)] ==
        IF n = 0 THEN <<>>
        ELSE IF \E j \in 1..(n - 1) :
                  index[sel[j].fingerprint] = index[sel[n].fingerprint]
          THEN kept[n - 1]
          ELSE Append(kept[n - 1],
                 [Fingerprint |-> sel[n].fingerprint,
                  GrafanaAlertGroupID |-> index[sel[n].fingerprint]])
  IN  kept[Len(sel)]

\* reconciler.go:238-252
FindInconsistencies(alerts, groups) ==
  LET index == GrafanaFingerprints(groups)
      sel == SelectSeq(SilencedAlerts(alerts),
                       LAMBDA a : a.fingerprint \in DOMAIN index)
  IN  [i \in 1..Len(sel) |->
         [Fingerprint |-> sel[i].fingerprint,
          GrafanaAlertGroupID |-> index[sel[i].fingerprint]]]

\* alertmanager/client.go:92-123; ok: the upstream GET succeeds
GetSilence(cache, silenceID, ok) ==
  IF silenceID = "" THEN [cache |-> cache, found |-> FALSE, createdBy |-> ""]
  ELSE IF silenceID \in DOMAIN cache
    THEN [cache |-> cache, found |-> TRUE, createdBy |-> cache[silenceID]]
  ELSE IF ok
    THEN [cache |-> [s \in (DOMAIN cache) \cup {silenceID} |->
                       IF s = silenceID THEN SilenceCreatedBy[silenceID] ELSE cache[s]],
          found |-> TRUE, createdBy |-> SilenceCreatedBy[silenceID]]
  ELSE [cache |-> cache, found |-> FALSE, createdBy |-> ""]

\* alertmanager/client.go:126-135
GetSilenceAuthor(cache, silenceID, ok) ==
  LET r == GetSilence(cache, silenceID, ok)
  IN  [cache |-> r.cache, author |-> IF r.found THEN r.createdBy ELSE ""]

\* grafana/client.go:146-199
GetUser(cache, userID, ok) ==
  IF userID = "" THEN [cache |-> cache, found |-> FALSE, email |-> ""]
  ELSE IF userID \in DOMAIN cache
    THEN [cache |-> cache, found |-> TRUE, email |-> cache[userID]]
  ELSE IF ok
    THEN [cache |-> [u \in (DOMAIN cache) \cup {userID} |->
                       IF u = userID THEN UserEmail[userID] ELSE cache[u]],
          found |-> TRUE, email |-> UserEmail[userID]]
  ELSE [cache |-> cache, found |-> FALSE, email |-> ""]

\* mutant: a user whose lookup failed is published by id
GetUserEmail_IdOnError(cache, userID, ok) ==
  LET r == GetUser(cache, userID, ok)
  IN  [cache |-> r.cache, email |-> IF r.found THEN r.email ELSE userID]

\* grafana/client.go:202-212
GetUserEmail(cache, userID, ok) ==
  LET r == GetUser(cache, userID, ok)
  IN  [cache |-> r.cache, email |-> IF r.found THEN r.email ELSE ""]

\* exporter.go:351: GaugeVec.With(labels).Set(v)
GaugeSet(vec, labels, v) ==
  { s \in vec : s.labels # labels } \cup { [labels |-> labels, value |-> v] }

\* mutant: an alert is labelled suppressed by its state
SuppressedLabel_ByState(alert) ==
  IF alert.state = "suppressed" THEN "true" ELSE "false"

\* exporter.go:283-287: suppressed is "true" when a silence id is present
SuppressedLabel(alert) ==
  IF Len(alert.silencedBy) > 0 THEN "true" ELSE "false"

\* mutant: a name that is missing on the alert gets no entry
Project_PresentOnly(metricLabels, names, source) ==
  LET present == { names[i] : i \in DOMAIN names } \cap DOMAIN source
  IN  [k \in present |-> source[k]] @@ metricLabels

Project(metricLabels, names, source) ==
  LET wanted == { names[i] : i \in DOMAIN names }
  IN  [k \in wanted |-> IF k \in DOMAIN source THEN source[k] ELSE ""]
        @@ metricLabels

\* exporter.go:275-354: the series of one alert and the caches after its lookups
exportAlert(alert, index, sCache, uCache, sOk, aOk, rOk) ==
  LET hasGroup == alert.fingerprint \in DOMAIN index
      hasSilence == Len(alert.silencedBy) > 0
      sil == IF hasSilence THEN GetSilenceAuthor(sCache, alert.silencedBy[1], sOk)
             ELSE [cache |-> sCache, author |-> ""]
      ack == IF hasGroup /\ index[alert.fingerprint].acknowledgedBy # ""
             THEN GetUserEmail(uCache, index[alert.fingerprint].acknowledgedBy, aOk)
             ELSE [cache |-> uCache, email |-> ""]
      res == IF hasGroup /\ index[alert.fingerprint].resolvedBy # ""
             THEN GetUserEmail(ack.cache, index[alert.fingerprint].resolvedBy, rOk)
             ELSE [cache |-> ack.cache, email |-> ""]
      metricLabels ==
        [alertname |-> IF "alertname" \in DOMAIN alert.labels
                         THEN alert.labels["alertname"] ELSE "",
         fingerprint |-> alert.fingerprint,
         suppressed |-> SuppressedLabel(alert),
         acknowledged_by |-> ack.email,
         resolved_by |-> res.email,
         silenced_by |-> sil.author,
         inhibited_by |-> IF Len(alert.inhibitedBy) > 0
                          THEN alert.inhibitedBy[1] ELSE ""]
  IN  [labels |-> Project(Project(metricLabels, alertLabels, alert.labels),
                          alertAnnotations, alert.annotations),
       value |-> IF alert.state = "active" THEN 1 ELSE 0,
       silenceCache |-> sil.cache,
       userCache |-> res.cache]

\* mutant: a resolve request on a resolved group reopens it
MarkResolved_Toggle(groups, id) ==
  [i \in DOMAIN groups |->
     IF groups[i].id = id
       THEN IF groups[i].state = "resolved"
              THEN [groups[i] EXCEPT !.state = "firing", !.resolvedBy = ""]
              ELSE [groups[i] EXCEPT !.state = "resolved", !.resolvedBy = "u1"]
     ELSE groups[i]]

\* IRM: POST /alert_groups/<id>/resolve answered 2xx marks the group resolved
MarkResolved(groups, id) ==
  [i \in DOMAIN groups |->
     IF groups[i].id = id
       THEN [groups[i] EXCEPT !.state = "resolved", !.resolvedBy = "u1"]
     ELSE groups[i]]

SeriesFingerprints(vec) == { s.labels.fingerprint : s \in vec }
AlertFingerprints(alerts) == { alerts[i].fingerprint : i \in DOMAIN alerts }


(* --------------------------- initial state ----------------------------- *)
(* ------------------------- the /webhook side --------------------------- *)
\* handlers.go:177-178: WEBHOOK_USERNAME and WEBHOOK_PASSWORD
username == "hook"
password == "secret"

\* handlers.go:185-191: the e-mails of WEBHOOK_EMAIL_ALLOWLIST
allowlist == {"admin@co"}

\* r.BasicAuth(): no Authorization header, the configured pair, a wrong
\* password, a wrong user name
Credentials ==
  { [present |-> FALSE, username |-> "", password |-> ""],
    [present |-> TRUE, username |-> "hook", password |-> "secret"],
    [present |-> TRUE, username |-> "hook", password |-> "guess"],
    [present |-> TRUE, username |-> "root", password |-> "secret"] }

Methods == {"POST", "GET"}
EventTypes == {"", "silence", "resolve"}
Emails == {"admin@co", "stranger@co"}
UntilValues ==
  {"", "2030-01-01T00:00:00Z", "2030-01-01T01:00:00+01:00",
   "2030-01-01T02:00:00Z", "tomorrow"}

\* handlers.go:136-144: the i-th alert of alert_group.last_alert.payload.alerts
LabelsOf(i) ==
  IF i % 2 = 1 THEN [alertname |-> "X", severity |-> "warn"]
  ELSE [alertname |-> "Y"]

InnerAlert(i) == [Fingerprint |-> FPNames[i], Labels |-> LabelsOf(i)]

\* handlers.go:96-166: a WebhookEvent as decoded from the body; a body that
\* does not decode leaves no event
WebhookEvent(decodes, type, until, email, n) ==
  [decodes |-> decodes, Type |-> type, Until |-> until, Email |-> email,
   AlertGroupID |-> "g1", Title |-> "disk full", Web |-> "https://irm/g1",
   Alerts |-> [i \in 1..n |-> InnerAlert(i)]]

Bodies ==
  { WebhookEvent(FALSE, "", "", "", 0) } \cup
  { WebhookEvent(TRUE, type, until, email, n) :
      type \in EventTypes, until \in UntilValues, email \in Emails,
      n \in 0..MaxWebhookAlerts }

Requests == [Method : Methods, Auth : Credentials, Body : Bodies]

NoRequest ==
  [Method |-> "", Auth |-> [present |-> FALSE, username |-> "", password |-> ""],
   Body |-> WebhookEvent(FALSE, "", "", "", 0)]

\* no response written yet
NoResponse ==
  [status |-> 0, wwwAuthenticate |-> "", text |-> "", bodyStatus |-> "",
   reason |-> "", alert_group_id |-> "", silences_created |-> ""]

\* http.Error(w, text, code)
HttpError(text, code) == [NoResponse EXCEPT !.status = code, !.text = text]

\* w.WriteHeader(200) followed by the JSON encoding of the map
JsonOK(status, reason, id, created) ==
  [NoResponse EXCEPT !.status = 200, !.bodyStatus = status, !.reason = reason,
                     !.alert_group_id = id, !.silences_created = created]

\* mutant: the password is not compared
CredentialsMatch_UsernameOnly(auth) ==
  auth.present /\ auth.username = username

\* handlers.go:207-208
CredentialsMatch(auth) ==
  auth.present /\ auth.username = username /\ auth.password = password

\* mutant: every method is served
MethodAllowed_Any(method) == TRUE

\* handlers.go:219
MethodAllowed(method) == method = "POST"

\* mutant: every event with a type is processed as a silence event
IsSilenceEvent_AnyType(type) == TRUE

\* handlers.go:242
IsSilenceEvent(type) == type = "silence"

\* mutant: every user is treated as allow-listed
IsAllowed_Any(email) == TRUE

\* handlers.go:250: isAllowed := h.allowlist[event.User.Email]
IsAllowed(email) == email \in allowlist

\* mutant: every string parses
ParseRFC3339_Lenient(s) == [err |-> FALSE, time |-> 0]

\* handlers.go:277: time.Parse(time.RFC3339, s), on the strings of
\* UntilValues: the instant as hours since 2030-01-01T00:00:00Z, or an error
ParseRFC3339(s) ==
  CASE s = "2030-01-01T00:00:00Z" -> [err |-> FALSE, time |-> 0]
    [] s = "2030-01-01T01:00:00+01:00" -> [err |-> FALSE, time |-> 0]
    [] s = "2030-01-01T02:00:00Z" -> [err |-> FALSE, time |-> 2]
    [] OTHER -> [err |-> TRUE, time |-> 0]

(* ------------------- decoding of the IRM timestamps -------------------- *)
\* the JSON values a timestamp field of an alert group can have: left out,
\* null, a string (empty, RFC 3339, or something else), a number
TimestampJson ==
  { [kind |-> "omitted", text |-> ""], [kind |-> "null", text |-> ""],
    [kind |-> "number", text |-> "17"] }
  \cup { [kind |-> "string", text |-> s] : s \in UntilValues }

\* the zero time.Time, in hours since 2030-01-01T00:00:00Z
ZeroTime == 0 - 17786000

\* grafana/client.go:222-225: the zero NullableTime
ZeroNullableTime == [Time |-> ZeroTime, Valid |-> FALSE]

\* time.Time.UnmarshalJSON: a JSON string in RFC 3339, anything else fails
UnmarshalTime(data) ==
  IF data.kind = "string" THEN ParseRFC3339(data.text)
  ELSE [err |-> TRUE, time |-> 0]

\* mutant: a timestamp that does not parse is a decode error
UnmarshalJSON_Strict(nt, data) ==
  IF data.kind = "null" \/ (data.kind = "string" /\ data.text = "")
    THEN [err |-> FALSE, nt |-> [nt EXCEPT !.Valid = FALSE]]
  ELSE LET t == UnmarshalTime(data)
       IN  IF t.err THEN [err |-> TRUE, nt |-> nt]
           ELSE [err |-> FALSE, nt |-> [Time |-> t.time, Valid |-> TRUE]]

\* grafana/client.go:228-254: NullableTime.UnmarshalJSON on the value of
\* the field; the error it returns and nt afterwards
UnmarshalJSON(nt, data) ==
  IF data.kind = "null"
    THEN [err |-> FALSE, nt |-> [nt EXCEPT !.Valid = FALSE]]
  ELSE IF data.kind = "string" /\ data.text = ""
    THEN [err |-> FALSE, nt |-> [nt EXCEPT !.Valid = FALSE]]
  ELSE LET t == UnmarshalTime(data)
       IN  IF t.err THEN [err |-> FALSE, nt |-> [nt EXCEPT !.Valid = FALSE]]
           ELSE [err |-> FALSE, nt |-> [Time |-> t.time, Valid |-> TRUE]]

\* encoding/json on a NullableTime field of a fresh AlertGroup: a field
\* that is left out is not touched, any other value goes to UnmarshalJSON
UnmarshalField(data) ==
  IF data.kind = "omitted" THEN [err |-> FALSE, nt |-> ZeroNullableTime]
  ELSE UnmarshalJSON(ZeroNullableTime, data)

\* grafana/client.go:286-300: one element of results
UnmarshalAlertGroup(g) ==
  LET created == UnmarshalField(g.created_at)
      resolved == UnmarshalField(g.resolved_at)
  IN  [err |-> created.err \/ resolved.err,
       group |-> [ID |-> g.id, CreatedAt |-> created.nt, ResolvedAt |-> resolved.nt]]

\* the alert groups of a response body, each with two of its timestamps
BodyGroup(i) ==
  [id : {GroupIds[i]}, created_at : TimestampJson, resolved_at : TimestampJson]

RECURSIVE BodyResults(_)
BodyResults(n) ==
  IF n = 0 THEN {<<>>}
  ELSE { Append(res, g) : res \in BodyResults(n - 1), g \in BodyGroup(n) }

\* the 200 responses of IRM: well-formed JSON apart from the timestamps,
\* or not JSON at all
AlertGroupBodies ==
  { [wellFormed |-> w, results |-> res] :
      w \in BOOLEAN, res \in UNION { BodyResults(n) : n \in 1..MaxBodyGroups } }

NoBody == [wellFormed |-> FALSE, results |-> <<>>]
NoResponse200 == [returned |-> FALSE, err |-> FALSE, groups |-> <<>>]

\* grafana/client.go:77-88: the body of a 200 response is unmarshalled and
\* its results are returned, or the error of json.Unmarshal
UnmarshalAlertGroups ==
  /\ ~response200.returned
  /\ LET decoded == [i \in DOMAIN irmBody.results |->
                       UnmarshalAlertGroup(irmBody.results[i])]
         err == \/ ~irmBody.wellFormed
                \/ \E i \in DOMAIN decoded : decoded[i].err
     IN  response200' =
           [returned |-> TRUE, err |-> err,
            groups |-> IF err THEN <<>>
                       ELSE [i \in DOMAIN decoded |-> decoded[i].group]]
  /\ UNCHANGED <<env, pc, fetchVars, exportVars, resolveVars, resultsChan,
                 reconCounters, itemCounters, exportCounters, alertStateGauge,
                 caches, irmLog, lastComplete, scrapeVars, lookupVars,
                 tickerC, ticksConsumed, ticksDropped, loopStarted, startupVars,
                 irmBody, ctxDone, inFlight, prevFailed, webhookVars>>

\* mutant: only the alertname label becomes a matcher
Matchers_AlertnameOnly(labels) ==
  { [Name |-> k, Value |-> labels[k], IsEqual |-> TRUE, IsRegex |-> FALSE] :
      k \in DOMAIN labels \cap {"alertname"} }

\* handlers.go:323-334: one matcher per label, exact match and not a regex
Matchers(labels) ==
  { [Name |-> k, Value |-> labels[k], IsEqual |-> TRUE, IsRegex |-> FALSE] :
      k \in DOMAIN labels }

\* handlers.go:337-357: the silence built for one alert
PostableSilence(alert, event, until) ==
  [Matchers |-> Matchers(alert.Labels),
   CreatedBy |-> event.Email,
   EndsAt |-> until,
   Comment |-> [title |-> event.Title, web |-> event.Web, id |-> event.AlertGroupID]]

\* mutant: the loop over the alerts stops at the first failed call
LoopAfter_Break(idx, ok, n) == IF ok THEN idx + 1 ELSE n + 1

\* handlers.go:285-295: a failed call is logged and the loop continues with
\* the next alert
LoopAfter(idx, ok, n) == idx + 1

\* handlers.go:297-308: the response after the loop over the alerts
SilenceResponse(created, id) ==
  IF created = 0
    THEN HttpError("Failed to create any silences", 500)
    ELSE JsonOK("silenced", "", id, ToString(created))

\* both read-write mutexes free
MutexFree == [readers |-> {}, writer |-> 0]

\* the engine before its first cycle
CyclesIdle ==
  /\ lookups = <<>>
  /\ cacheMutex = [c \in {"silence", "user"} |-> MutexFree]
  /\ pc = [r \in Runners |-> "idle"]
  /\ alertsChan = [r \in Runners |-> NoFetch]
  /\ grafanaChan = [r \in Runners |-> NoFetch]
  /\ exportPc = [r \in Runners |-> "off"]
  /\ exportIdx = [r \in Runners |-> 1]
  /\ resolvePc = [r \in Runners |-> "off"]
  /\ inconsistencies = [r \in Runners |-> <<>>]
  /\ resolveIdx = [r \in Runners |-> 1]
  /\ resolvedCount = [r \in Runners |-> 0]
  /\ resultsChan = [r \in Runners |-> <<>>]
  /\ calls = [r \in Runners |-> <<>>]
  /\ reconciliationTotal = 0
  /\ reconciliationFailuresTotal = 0
  /\ inconsistenciesFound = 0
  /\ inconsistenciesResolved = 0
  /\ inconsistenciesFailedResolve = 0
  /\ lastReconciliationSuccess = 0
  /\ alertExportTotal = 0
  /\ alertExportFailuresTotal = 0
  /\ alertStateGauge = {}
  /\ silenceCache = EmptyCache
  /\ userCache = EmptyCache
  /\ resolveSucceeded = 0
  /\ resolveFailed = 0
  /\ lastComplete = {}
  /\ scraped = {}
  /\ tickerC = 0
  /\ ticksConsumed = 0
  /\ ticksDropped = 0
  /\ loopStarted = FALSE
  /\ ctxDone = [r \in Runners |-> FALSE]
  /\ prevFailed = [r \in Runners |-> {}]
  /\ inFlight = [r \in Runners |-> <<>>]

\* no cycle has run and no response has been decoded
EnginePristine ==
  /\ CyclesIdle
  /\ irmBody = NoBody
  /\ response200 = NoResponse200

\* main.go:371-461 has run with every variable set: both clients and the
\* webhook handler exist, the routes are registered, the listener is open
Serving ==
  /\ environ = [GRAFANA_IRM_URL |-> <<"u">>, GRAFANA_IRM_TOKEN |-> <<"t">>,
                WEBHOOK_USERNAME |-> <<"h">>, WEBHOOK_PASSWORD |-> <<"s">>,
                RECONCILE_INTERVAL |-> <<"5">>]
  /\ mainPc = "serving"
  /\ grafanaClient = TRUE
  /\ webhookHandler = TRUE
  /\ loopsSpawned = 1
  /\ mux = {"/metrics", "/healthz", "/readyz", "/webhook"}
  /\ listening = TRUE

EngineIdle == EnginePristine /\ Serving

\* no /webhook request received yet
WebhookIdle ==
  /\ webhookPc = "idle"
  /\ request = NoRequest
  /\ response = NoResponse
  /\ unsilenceCalls = <<>>
  /\ silenceCalls = <<>>
  /\ silencesCreated = 0
  /\ alertIdx = 1
  /\ untilTime = 0
  /\ amStore = <<>>
  /\ irmSilenced = {"g1"}
  /\ served = 0

Init ==
  /\ amAlerts \in AlertSnapshots
  /\ irmGroups \in GroupSnapshots
  /\ amSilences = SilenceCreatedBy
  /\ irmUsers = UserEmail
  /\ EngineIdle
  /\ WebhookIdle

(* ------------------- ReconcileAndResolveOptimized ---------------------- *)
\* mutant: the publish reports an error
MetricsExportResult_Failed ==
  [name |-> "metrics_export", err |-> TRUE, inconsistencies |-> 0, resolved |-> 0]

\* reconciler.go:188-192, 206: the result the export goroutine sends
MetricsExportResult ==
  [name |-> "metrics_export", err |-> FALSE, inconsistencies |-> 0, resolved |-> 0]

\* mutant: the calls that succeeded are reported as the inconsistencies found
ReconcileResult_ResolvedOnly(found, resolved) ==
  [name |-> "silence_reconciliation", err |-> FALSE,
   inconsistencies |-> resolved, resolved |-> resolved]

\* reconciler.go:269-274: the result the reconcile goroutine sends
ReconcileResult(found, resolved) ==
  [name |-> "silence_reconciliation", err |-> FALSE,
   inconsistencies |-> found, resolved |-> resolved]

\* mutant: a cycle is entered without waiting for the previous one to return
RecordReconciliationStart_Async(r) ==
  /\ reconciliationTotal' = reconciliationTotal + 1
  /\ pc' = [pc EXCEPT ![r] = "fetching"]
  /\ ctxDone' = [ctxDone EXCEPT ![r] = FALSE]
  /\ UNCHANGED <<env, fetchVars, exportVars, resolveVars, resultsChan,
                 reconciliationFailuresTotal, inconsistenciesFound,
                 lastReconciliationSuccess, itemCounters, exportCounters,
                 alertStateGauge, caches, irmLog, lastComplete, scrapeVars,
                 lookupVars, prevFailed, inFlight, webhookVars>>

\* exporter.go:186-197; the cycle is entered by the loop (main.go:465-490)
\* with context.Background() or by a /reconcile request (handlers.go:45-56)
\* with the context of the request; both fetches are spawned
RecordReconciliationStart(r) ==
  /\ pc[r] = "idle"
  /\ reconciliationTotal' = reconciliationTotal + 1
  /\ pc' = [pc EXCEPT ![r] = "fetching"]
  /\ ctxDone' = [ctxDone EXCEPT ![r] = FALSE]
  /\ UNCHANGED <<env, fetchVars, exportVars, resolveVars, resultsChan,
                 reconciliationFailuresTotal, inconsistenciesFound,
                 lastReconciliationSuccess, itemCounters, exportCounters,
                 alertStateGauge, caches, irmLog, lastComplete, scrapeVars,
                 lookupVars, prevFailed, inFlight, webhookVars>>

\* reconciler.go:160-163 and alertmanager/client.go:57-67: the request
\* carries ctx, and fails once ctx is cancelled
GetAllAlerts(r) ==
  /\ pc[r] = "fetching" /\ ~alertsChan[r].full
  /\ \E ok \in BOOLEAN :
       /\ ctxDone[r] => ~ok
       /\ alertsChan' = [alertsChan EXCEPT ![r] =
            [full |-> TRUE, err |-> ~ok, payload |-> IF ok THEN amAlerts ELSE <<>>]]
  /\ UNCHANGED <<env, pc, grafanaChan, exportVars, resolveVars, resultsChan,
                 reconCounters, itemCounters, exportCounters, alertStateGauge,
                 caches, irmLog, lastComplete, scrapeVars, lookupVars, tickerVars, ctxDone, inFlight, prevFailed,
                 webhookVars>>

\* reconciler.go:166-169 and grafana/client.go:54-88: the request carries
\* no context
GetAllAlertGroups(r) ==
  /\ pc[r] = "fetching" /\ ~grafanaChan[r].full
  /\ \E ok \in BOOLEAN :
       grafanaChan' = [grafanaChan EXCEPT ![r] =
         [full |-> TRUE, err |-> ~ok, payload |-> IF ok THEN irmGroups ELSE <<>>]]
  /\ UNCHANGED <<env, pc, alertsChan, exportVars, resolveVars, resultsChan,
                 reconCounters, itemCounters, exportCounters, alertStateGauge,
                 caches, irmLog, lastComplete, scrapeVars, lookupVars, tickerVars, ctxDone, inFlight, prevFailed,
                 webhookVars>>

\* mutant: only the error of the alert fetch is examined
FetchFailed_AlertsOnly(r) == alertsChan[r].err

\* reconciler.go:175, 179: the all-or-nothing rule of the join
FetchFailed(r) == alertsChan[r].err \/ grafanaChan[r].err

\* mutant: a failed cycle is counted once per fetch
RecordReconciliationFailure_PerFetch ==
  /\ reconciliationFailuresTotal' = reconciliationFailuresTotal + 2
  /\ lastReconciliationSuccess' = 0

\* exporter.go:207-210
RecordReconciliationFailure ==
  /\ reconciliationFailuresTotal' = reconciliationFailuresTotal + 1
  /\ lastReconciliationSuccess' = 0

\* mutant: the cycle returns on the error of the alert fetch without
\* receiving the result of the group fetch
JoinFetchFailure_Early(r) ==
  /\ pc[r] = "fetching" /\ alertsChan[r].full /\ alertsChan[r].err
  /\ RecordReconciliationFailure
  /\ pc' = [pc EXCEPT ![r] = "idle"]
  /\ alertsChan' = [alertsChan EXCEPT ![r] = NoFetch]
  /\ prevFailed' = [prevFailed EXCEPT ![r] = {}]
  /\ UNCHANGED <<env, grafanaChan, exportVars, resolveVars, resultsChan,
                 reconciliationTotal, inconsistenciesFound, itemCounters,
                 exportCounters, alertStateGauge, caches, irmLog,
                 lastComplete, scrapeVars, lookupVars, tickerVars, ctxDone, inFlight,
                 webhookVars>>

\* reconciler.go:172-182: a fetch failed, the cycle returns
JoinFetchFailure(r) ==
  /\ pc[r] = "fetching" /\ alertsChan[r].full /\ grafanaChan[r].full
  /\ FetchFailed(r)
  /\ RecordReconciliationFailure
  /\ pc' = [pc EXCEPT ![r] = "idle"]
  /\ alertsChan' = [alertsChan EXCEPT ![r] = NoFetch]
  /\ grafanaChan' = [grafanaChan EXCEPT ![r] = NoFetch]
  /\ prevFailed' = [prevFailed EXCEPT ![r] = {}]
  /\ UNCHANGED <<env, exportVars, resolveVars, resultsChan,
                 reconciliationTotal, inconsistenciesFound, itemCounters,
                 exportCounters, alertStateGauge, caches, irmLog,
                 lastComplete, scrapeVars, lookupVars, tickerVars, ctxDone, inFlight,
                 webhookVars>>

\* mutant: the reconcile goroutine reads AM and IRM again for its own use
JoinFetchSuccess_Refetch(r) ==
  /\ pc[r] = "fetching" /\ alertsChan[r].full /\ grafanaChan[r].full
  /\ ~FetchFailed(r)
  /\ pc' = [pc EXCEPT ![r] = "working"]
  /\ exportPc' = [exportPc EXCEPT ![r] = "start"]
  /\ exportIdx' = [exportIdx EXCEPT ![r] = 1]
  /\ LET found == FindInconsistencies(amAlerts, irmGroups)
     IN  /\ inconsistencies' = [inconsistencies EXCEPT ![r] = found]
         /\ resolvePc' = [resolvePc EXCEPT ![r] =
              IF Len(found) = 0 THEN "done" ELSE "loop"]
         /\ resultsChan' = [resultsChan EXCEPT ![r] =
              IF Len(found) = 0 THEN <<ReconcileResult(0, 0)>> ELSE <<>>]
  /\ resolveIdx' = [resolveIdx EXCEPT ![r] = 1]
  /\ resolvedCount' = [resolvedCount EXCEPT ![r] = 0]
  /\ UNCHANGED <<env, fetchVars, calls, reconCounters, itemCounters,
                 exportCounters, alertStateGauge, caches, irmLog,
                 lastComplete, scrapeVars, lookupVars, tickerVars, ctxDone, inFlight,
                 prevFailed, webhookVars>>

\* reconciler.go:172-254: both fetches succeeded; the two goroutines are
\* spawned, and the reconcile goroutine computes its inconsistencies from the
\* snapshot it was handed (with none to resolve it sends its result at once,
\* reconciler.go:269-274)
JoinFetchSuccess(r) ==
  /\ pc[r] = "fetching" /\ alertsChan[r].full /\ grafanaChan[r].full
  /\ ~FetchFailed(r)
  /\ pc' = [pc EXCEPT ![r] = "working"]
  /\ exportPc' = [exportPc EXCEPT ![r] = "start"]
  /\ exportIdx' = [exportIdx EXCEPT ![r] = 1]
  /\ LET found == FindInconsistencies(alertsChan[r].payload, grafanaChan[r].payload)
     IN  /\ inconsistencies' = [inconsistencies EXCEPT ![r] = found]
         /\ resolvePc' = [resolvePc EXCEPT ![r] =
              IF Len(found) = 0 THEN "done" ELSE "loop"]
         /\ resultsChan' = [resultsChan EXCEPT ![r] =
              IF Len(found) = 0 THEN <<ReconcileResult(0, 0)>> ELSE <<>>]
  /\ resolveIdx' = [resolveIdx EXCEPT ![r] = 1]
  /\ resolvedCount' = [resolvedCount EXCEPT ![r] = 0]
  /\ UNCHANGED <<env, fetchVars, calls, reconCounters, itemCounters,
                 exportCounters, alertStateGauge, caches, irmLog,
                 lastComplete, scrapeVars, lookupVars, tickerVars, ctxDone, inFlight, prevFailed,
                 webhookVars>>

(* ----------------------- the metrics-export goroutine ------------------ *)
\* exporter.go:271 and reconciler.go:199-206: after the last alert nil is
\* returned and the result is sent
ExportReturn(r, finished) ==
  IF finished
    THEN /\ exportPc' = [exportPc EXCEPT ![r] = "done"]
         /\ resultsChan' = [resultsChan EXCEPT ![r] = Append(@, MetricsExportResult)]
         /\ lastComplete' = AlertFingerprints(alertsChan[r].payload)
    ELSE /\ exportPc' = [exportPc EXCEPT ![r] = "loop"]
         /\ UNCHANGED <<resultsChan, lastComplete>>

\* exporter.go:242-257: count the attempt, Reset the vector, build the map
ExportAlertsWithGrafanaReset(r) ==
  /\ exportPc[r] = "start"
  /\ alertExportTotal' = alertExportTotal + 1
  /\ alertStateGauge' = {}
  /\ exportIdx' = [exportIdx EXCEPT ![r] = 1]
  /\ ExportReturn(r, Len(alertsChan[r].payload) = 0)
  /\ UNCHANGED <<env, pc, fetchVars, resolveVars, reconCounters,
                 itemCounters, alertExportFailuresTotal, caches, irmLog,
                 scrapeVars, lookupVars, tickerVars, ctxDone, inFlight, prevFailed,
                 webhookVars>>

\* exporter.go:259-269: one iteration, the lookups of exportAlert included;
\* of the three lookups GetSilence alone carries ctx
ExportAlertsWithGrafanaAlert(r) ==
  /\ exportPc[r] = "loop"
  /\ exportIdx[r] <= Len(alertsChan[r].payload)
  /\ \E sOk \in BOOLEAN, aOk \in BOOLEAN, rOk \in BOOLEAN :
       /\ ctxDone[r] => ~sOk
       /\ LET e == exportAlert(alertsChan[r].payload[exportIdx[r]],
                               GrafanaMap(grafanaChan[r].payload),
                               silenceCache, userCache, sOk, aOk, rOk)
          IN  /\ alertStateGauge' = GaugeSet(alertStateGauge, e.labels, e.value)
              /\ silenceCache' = e.silenceCache
              /\ userCache' = e.userCache
  /\ exportIdx' = [exportIdx EXCEPT ![r] = @ + 1]
  /\ ExportReturn(r, exportIdx[r] = Len(alertsChan[r].payload))
  /\ UNCHANGED <<env, pc, fetchVars, resolveVars, reconCounters,
                 itemCounters, exportCounters, irmLog, scrapeVars, lookupVars, tickerVars, ctxDone, inFlight, prevFailed,
                 webhookVars>>

(* ------------------------- the reconcile goroutine --------------------- *)
\* mutant: a failed call is made once more before the loop moves on
ResolveInconsistency_Retry(r) ==
  /\ resolvePc[r] = "loop"
  /\ resolveIdx[r] <= Len(inconsistencies[r])
  /\ LET inc == inconsistencies[r][resolveIdx[r]]
         last == resolveIdx[r] = Len(inconsistencies[r])
     IN  \E ok \in BOOLEAN :
           LET again == ~ok /\ (calls[r] = <<>> \/ calls[r][Len(calls[r])].ok)
           IN
           /\ calls' = [calls EXCEPT ![r] =
                Append(@, [Fingerprint |-> inc.Fingerprint,
                           GrafanaAlertGroupID |-> inc.GrafanaAlertGroupID,
                           ok |-> ok])]
           /\ IF ok
                THEN /\ irmGroups' = MarkResolved(irmGroups, inc.GrafanaAlertGroupID)
                     /\ resolveSucceeded' = resolveSucceeded + 1
                     /\ inconsistenciesResolved' = inconsistenciesResolved + 1
                     /\ resolvedCount' = [resolvedCount EXCEPT ![r] = @ + 1]
                     /\ UNCHANGED <<resolveFailed, inconsistenciesFailedResolve>>
                ELSE /\ resolveFailed' = resolveFailed + 1
                     /\ inconsistenciesFailedResolve' = inconsistenciesFailedResolve + 1
                     /\ UNCHANGED <<irmGroups, resolveSucceeded,
                                    inconsistenciesResolved, resolvedCount>>
           /\ IF last /\ ~again
                THEN /\ resolvePc' = [resolvePc EXCEPT ![r] = "done"]
                     /\ resultsChan' = [resultsChan EXCEPT ![r] =
                          Append(@, ReconcileResult(Len(inconsistencies[r]),
                                                    resolvedCount'[r]))]
                ELSE UNCHANGED <<resolvePc, resultsChan>>
           /\ resolveIdx' = [resolveIdx EXCEPT ![r] = IF again THEN @ ELSE @ + 1]
  /\ UNCHANGED <<amAlerts, pc, fetchVars, exportVars, inconsistencies,
                 reconCounters, exportCounters, alertStateGauge,
                 caches, lastComplete, scrapeVars, lookupVars, tickerVars, ctxDone, inFlight, prevFailed,
                 webhookVars>>

\* mutant: the first failed call ends the resolve loop
ResolveInconsistency_Abort(r) ==
  /\ resolvePc[r] = "loop"
  /\ resolveIdx[r] <= Len(inconsistencies[r])
  /\ LET inc == inconsistencies[r][resolveIdx[r]]
         last == resolveIdx[r] = Len(inconsistencies[r])
     IN  \E ok \in BOOLEAN :
           /\ calls' = [calls EXCEPT ![r] =
                Append(@, [Fingerprint |-> inc.Fingerprint,
                           GrafanaAlertGroupID |-> inc.GrafanaAlertGroupID,
                           ok |-> ok])]
           /\ IF ok
                THEN /\ irmGroups' = MarkResolved(irmGroups, inc.GrafanaAlertGroupID)
                     /\ resolveSucceeded' = resolveSucceeded + 1
                     /\ inconsistenciesResolved' = inconsistenciesResolved + 1
                     /\ resolvedCount' = [resolvedCount EXCEPT ![r] = @ + 1]
                     /\ UNCHANGED <<resolveFailed, inconsistenciesFailedResolve>>
                ELSE /\ resolveFailed' = resolveFailed + 1
                     /\ inconsistenciesFailedResolve' = inconsistenciesFailedResolve + 1
                     /\ UNCHANGED <<irmGroups, resolveSucceeded,
                                    inconsistenciesResolved, resolvedCount>>
           /\ IF last \/ ~ok
                THEN /\ resolvePc' = [resolvePc EXCEPT ![r] = "done"]
                     /\ resultsChan' = [resultsChan EXCEPT ![r] =
                          Append(@, ReconcileResult(Len(inconsistencies[r]),
                                                    resolvedCount'[r]))]
                ELSE UNCHANGED <<resolvePc, resultsChan>>
  /\ resolveIdx' = [resolveIdx EXCEPT ![r] = @ + 1]
  /\ UNCHANGED <<amAlerts, pc, fetchVars, exportVars, inconsistencies,
                 reconCounters, exportCounters, alertStateGauge,
                 caches, lastComplete, scrapeVars, lookupVars, tickerVars, ctxDone, inFlight, prevFailed,
                 webhookVars>>

\* reconciler.go:258-274 with 92-106 and grafana/client.go:102-115: the
\* answer to the ResolveAlertGroup request of the iteration is handled;
\* after the last iteration the result is sent
ResolveAnswered(r) ==
  /\ resolvePc[r] = "loop"
  /\ resolveIdx[r] <= Len(inconsistencies[r])
  /\ LET inc == inconsistencies[r][resolveIdx[r]]
         last == resolveIdx[r] = Len(inconsistencies[r])
     IN  \E ok \in BOOLEAN :
           /\ calls' = [calls EXCEPT ![r] =
                Append(@, [Fingerprint |-> inc.Fingerprint,
                           GrafanaAlertGroupID |-> inc.GrafanaAlertGroupID,
                           ok |-> ok])]
           /\ IF ok
                THEN /\ irmGroups' = MarkResolved(irmGroups, inc.GrafanaAlertGroupID)
                     /\ resolveSucceeded' = resolveSucceeded + 1
                     /\ inconsistenciesResolved' = inconsistenciesResolved + 1
                     /\ resolvedCount' = [resolvedCount EXCEPT ![r] = @ + 1]
                     /\ UNCHANGED <<resolveFailed, inconsistenciesFailedResolve>>
                ELSE /\ resolveFailed' = resolveFailed + 1
                     /\ inconsistenciesFailedResolve' = inconsistenciesFailedResolve + 1
                     /\ UNCHANGED <<irmGroups, resolveSucceeded,
                                    inconsistenciesResolved, resolvedCount>>
           /\ IF last
                THEN /\ resolvePc' = [resolvePc EXCEPT ![r] = "done"]
                     /\ resultsChan' = [resultsChan EXCEPT ![r] =
                          Append(@, ReconcileResult(Len(inconsistencies[r]),
                                                    resolvedCount'[r]))]
                ELSE UNCHANGED <<resolvePc, resultsChan>>
  /\ resolveIdx' = [resolveIdx EXCEPT ![r] = @ + 1]
  /\ UNCHANGED <<amAlerts, pc, fetchVars, exportVars, inconsistencies,
                 reconCounters, exportCounters, alertStateGauge,
                 caches, lastComplete, scrapeVars, lookupVars, tickerVars, ctxDone, prevFailed,
                 webhookVars>>

\* reconciler.go:258-274 with 92-106 and grafana/client.go:90-115: one
\* iteration of the resolve loop, the request and its answer in one step
ResolveInconsistency(r) ==
  /\ inFlight[r] = <<>>
  /\ ResolveAnswered(r)
  /\ UNCHANGED inFlight

\* mutant: the requests of the cycle are sent without waiting for answers
ResolveAlertGroupSend_Concurrent(r) ==
  /\ resolvePc[r] = "loop"
  /\ resolveIdx[r] + Len(inFlight[r]) <= Len(inconsistencies[r])
  /\ inFlight' = [inFlight EXCEPT ![r] =
       Append(@, inconsistencies[r][resolveIdx[r] + Len(inFlight[r])])]
  /\ UNCHANGED <<env, pc, fetchVars, exportVars, resolveVars, resultsChan,
                 reconCounters, itemCounters, exportCounters, alertStateGauge,
                 caches, irmLog, lastComplete, scrapeVars, lookupVars,
                 tickerVars, ctxDone, prevFailed, webhookVars>>

\* reconciler.go:259 and 98, grafana/client.go:90-101: the loop sends the
\* request of its current entry and waits for the answer
ResolveAlertGroupSend(r) ==
  /\ resolvePc[r] = "loop"
  /\ resolveIdx[r] <= Len(inconsistencies[r])
  /\ inFlight[r] = <<>>
  /\ inFlight' = [inFlight EXCEPT ![r] = <<inconsistencies[r][resolveIdx[r]]>>]
  /\ UNCHANGED <<env, pc, fetchVars, exportVars, resolveVars, resultsChan,
                 reconCounters, itemCounters, exportCounters, alertStateGauge,
                 caches, irmLog, lastComplete, scrapeVars, lookupVars,
                 tickerVars, ctxDone, prevFailed, webhookVars>>

\* grafana/client.go:102-115 and reconciler.go:259-266: the answer arrives
ResolveAlertGroupAnswer(r) ==
  /\ inFlight[r] # <<>>
  /\ ResolveAnswered(r)
  /\ inFlight' = [inFlight EXCEPT ![r] = Tail(@)]

(* ------------------------------ the join ------------------------------- *)
\* the fingerprints whose ResolveAlertGroup call returned an error
\* (reconciler.go:259-262)
FailedFingerprints(cs) ==
  { cs[j].Fingerprint : j \in { k \in DOMAIN cs : ~cs[k].ok } }

\* exporter.go:200-204
RecordReconciliationSuccess(found, resolved) ==
  /\ lastReconciliationSuccess' = 1
  /\ inconsistenciesFound' = found
  /\ inconsistenciesResolved' = inconsistenciesResolved + resolved

\* reconciler.go:278-306: both results received, the outcome recorded
JoinWork(r) ==
  /\ pc[r] = "working"
  /\ Len(resultsChan[r]) = 2
  /\ LET res == resultsChan[r]
         m == CHOOSE i \in 1..2 : res[i].name = "metrics_export"
         s == CHOOSE i \in 1..2 : res[i].name = "silence_reconciliation"
     IN  IF ~res[m].err
           THEN /\ RecordReconciliationSuccess(res[s].inconsistencies, res[s].resolved)
                /\ UNCHANGED reconciliationFailuresTotal
           ELSE /\ RecordReconciliationFailure
                /\ UNCHANGED <<inconsistenciesFound, inconsistenciesResolved>>
  /\ pc' = [pc EXCEPT ![r] = "idle"]
  /\ exportPc' = [exportPc EXCEPT ![r] = "off"]
  /\ resolvePc' = [resolvePc EXCEPT ![r] = "off"]
  /\ resultsChan' = [resultsChan EXCEPT ![r] = <<>>]
  /\ alertsChan' = [alertsChan EXCEPT ![r] = NoFetch]
  /\ grafanaChan' = [grafanaChan EXCEPT ![r] = NoFetch]
  /\ exportIdx' = [exportIdx EXCEPT ![r] = 1]
  /\ inconsistencies' = [inconsistencies EXCEPT ![r] = <<>>]
  /\ resolveIdx' = [resolveIdx EXCEPT ![r] = 1]
  /\ resolvedCount' = [resolvedCount EXCEPT ![r] = 0]
  /\ calls' = [calls EXCEPT ![r] = <<>>]
  /\ prevFailed' = [prevFailed EXCEPT ![r] = FailedFingerprints(calls[r])]
  /\ UNCHANGED <<env, reconciliationTotal,
                 inconsistenciesFailedResolve, exportCounters, alertStateGauge,
                 caches, irmLog, lastComplete, scrapeVars, lookupVars,
                 tickerVars, ctxDone, inFlight, webhookVars>>

(* ------------------------------ /metrics ------------------------------- *)
\* handlers.go:39-41: a scrape gathers the series as they are at that instant
MetricsHandler ==
  /\ scraped' = SeriesFingerprints(alertStateGauge)
  /\ UNCHANGED <<env, pc, fetchVars, exportVars, resolveVars, resultsChan,
                 reconCounters, itemCounters, exportCounters, alertStateGauge,
                 caches, irmLog, lastComplete, lookupVars, tickerVars, ctxDone, inFlight, prevFailed,
                 webhookVars>>

\* main.go:472-477 and handlers.go:48: the loop or a /reconcile request
\* enters a cycle (the number of cycles of a run is bounded by MaxCycles)
StartCycle(r) ==
  /\ reconciliationTotal < MaxCycles
  /\ RecordReconciliationStart(r)
  /\ UNCHANGED tickerVars

Next ==
  \/ \E r \in Runners :
       \/ StartCycle(r)
       \/ GetAllAlerts(r)
       \/ GetAllAlertGroups(r)
       \/ JoinFetchFailure(r)
       \/ JoinFetchSuccess(r)
       \/ ExportAlertsWithGrafanaReset(r)
       \/ ExportAlertsWithGrafanaAlert(r)
       \/ ResolveInconsistency(r)
       \/ JoinWork(r)

Spec == Init /\ [][Next]_vars



(* ------------------------------ /webhook ------------------------------- *)
\* handlers.go:366-368: a request to /webhook reaches basicAuth(HandleWebhook)
ServeWebhook ==
  /\ webhookPc \in {"idle", "done"}
  /\ served < MaxRequests
  /\ served' = served + 1
  /\ \E req \in Requests : request' = req
  /\ webhookPc' = "basicAuth"
  /\ response' = NoResponse
  /\ unsilenceCalls' = <<>>
  /\ silenceCalls' = <<>>
  /\ silencesCreated' = 0
  /\ alertIdx' = 1
  /\ untilTime' = 0
  /\ UNCHANGED <<engineVars, amStore, irmSilenced>>

\* handlers.go:205-215
basicAuth ==
  /\ webhookPc = "basicAuth"
  /\ IF ~CredentialsMatch(request.Auth)
       THEN /\ response' = [HttpError("Unauthorized", 401) EXCEPT
                              !.wwwAuthenticate = "Basic realm=\"Restricted\""]
            /\ webhookPc' = "done"
       ELSE /\ webhookPc' = "HandleWebhook"
            /\ UNCHANGED response
  /\ UNCHANGED <<engineVars, request, unsilenceCalls, silenceCalls,
                 silencesCreated, alertIdx, untilTime, amStore, irmSilenced,
                 served>>

\* handlers.go:218-300: from the method check up to the first upstream call
HandleWebhook ==
  /\ webhookPc = "HandleWebhook"
  /\ LET event == request.Body
         parsed == ParseRFC3339(event.Until)
         Reply(resp) == /\ response' = resp
                        /\ webhookPc' = "done"
                        /\ UNCHANGED untilTime
     IN  IF ~MethodAllowed(request.Method)
           THEN Reply(HttpError("Method not allowed", 405))
         ELSE IF ~event.decodes
           THEN Reply(HttpError("Invalid payload", 400))
         ELSE IF event.Type = ""
           THEN Reply(JsonOK("ignored", "no event type", "", ""))
         ELSE IF ~IsSilenceEvent(event.Type)
           THEN Reply(JsonOK("ignored", "not a silence event", "", ""))
         ELSE IF ~IsAllowed(event.Email)
           THEN /\ webhookPc' = "UnsilenceAlertGroup"
                /\ UNCHANGED <<response, untilTime>>
         ELSE IF event.Until = ""
           THEN Reply(JsonOK("ignored", "no until time", "", ""))
         ELSE IF parsed.err
           THEN Reply(HttpError("Invalid until time", 400))
         ELSE IF Len(event.Alerts) = 0
           THEN /\ response' = SilenceResponse(0, event.AlertGroupID)
                /\ webhookPc' = "done"
                /\ untilTime' = parsed.time
         ELSE /\ webhookPc' = "createSilenceForAlert"
              /\ untilTime' = parsed.time
              /\ UNCHANGED response
  /\ UNCHANGED <<engineVars, request, unsilenceCalls, silenceCalls,
                 silencesCreated, alertIdx, amStore, irmSilenced, served>>

\* IRM: POST /alert_groups/<id>/unsilence answered 2xx leaves the group
\* not silenced
Unsilenced(silenced, id) == silenced \ {id}

\* mutant: an unsilence that IRM accepted is counted as an inconsistency
\* resolved
UnsilenceAlertGroup_Counting ==
  /\ webhookPc = "UnsilenceAlertGroup"
  /\ \E ok \in BOOLEAN :
       /\ unsilenceCalls' = Append(unsilenceCalls,
            [id |-> request.Body.AlertGroupID, ok |-> ok])
       /\ response' = IF ok
            THEN JsonOK("unsilenced", "", request.Body.AlertGroupID, "")
            ELSE HttpError("Failed to unsilence alert", 500)
       /\ irmSilenced' = IF ok THEN irmSilenced \ {request.Body.AlertGroupID}
                         ELSE irmSilenced
       /\ inconsistenciesResolved' =
            IF ok THEN inconsistenciesResolved + 1 ELSE inconsistenciesResolved
  /\ webhookPc' = "done"
  /\ UNCHANGED <<env, pc, fetchVars, exportVars, resolveVars, resultsChan,
                 reconCounters, inconsistenciesFailedResolve, exportCounters,
                 alertStateGauge, caches, irmLog, lastComplete, scrapeVars,
                 lookupVars, tickerVars, ctxDone, prevFailed, inFlight,
                 request, silenceCalls, silencesCreated,
                 alertIdx, untilTime, amStore, served>>

\* handlers.go:255-265 and grafana/client.go:118-143
UnsilenceAlertGroup ==
  /\ webhookPc = "UnsilenceAlertGroup"
  /\ \E ok \in BOOLEAN :
       /\ unsilenceCalls' = Append(unsilenceCalls,
            [id |-> request.Body.AlertGroupID, ok |-> ok])
       /\ response' = IF ok
            THEN JsonOK("unsilenced", "", request.Body.AlertGroupID, "")
            ELSE HttpError("Failed to unsilence alert", 500)
       /\ irmSilenced' = IF ok THEN Unsilenced(irmSilenced, request.Body.AlertGroupID)
                         ELSE irmSilenced
  /\ webhookPc' = "done"
  /\ UNCHANGED <<engineVars, request, silenceCalls, silencesCreated,
                 alertIdx, untilTime, amStore, served>>

\* AM: POST /silences of a silence without id answered 2xx has stored one
\* more silence, whatever it holds already
Stored(store, silence) == Append(store, silence)

\* AM answers a CreateSilence call with the new silence id or with an error
CreateSilence(silence, fingerprint, ok) ==
  [silence |-> silence, fingerprint |-> fingerprint, ok |-> ok]

\* handlers.go:285-308, 312-363: one iteration of the loop over the alerts;
\* the last one writes the response
createSilenceForAlert ==
  /\ webhookPc = "createSilenceForAlert"
  /\ LET event == request.Body
         alert == event.Alerts[alertIdx]
         n == Len(event.Alerts)
     IN  \E ok \in BOOLEAN :
           LET created == IF ok THEN silencesCreated + 1 ELSE silencesCreated
               next == LoopAfter(alertIdx, ok, n)
           IN  /\ silenceCalls' = Append(silenceCalls,
                    CreateSilence(PostableSilence(alert, event, untilTime),
                                  alert.Fingerprint, ok))
               /\ amStore' = IF ok
                    THEN Stored(amStore, PostableSilence(alert, event, untilTime))
                    ELSE amStore
               /\ silencesCreated' = created
               /\ alertIdx' = next
               /\ IF next > n
                    THEN /\ response' = SilenceResponse(created, event.AlertGroupID)
                         /\ webhookPc' = "done"
                    ELSE UNCHANGED <<response, webhookPc>>
  /\ UNCHANGED <<engineVars, request, unsilenceCalls, untilTime, irmSilenced,
                 served>>

\* the engine at rest, with no alerts and no groups upstream
WebhookInit ==
  /\ amAlerts = <<>>
  /\ irmGroups = <<>>
  /\ amSilences = SilenceCreatedBy
  /\ irmUsers = UserEmail
  /\ EngineIdle
  /\ WebhookIdle

WebhookNext ==
  \/ ServeWebhook
  \/ basicAuth
  \/ HandleWebhook
  \/ UnsilenceAlertGroup
  \/ createSilenceForAlert

\* the /webhook endpoint serving one request after the other
WebhookSpec == WebhookInit /\ [][WebhookNext]_vars

(* --------------------- the two cached lookups -------------------------- *)
\* ids looked up: blank, and two ids per client
LookupIds == [silence |-> {"", "s1", "s2"}, user |-> {"", "u1", "u2"}]

\* the value an upstream record has after it was edited
Edited == [alice |-> "bob", carol |-> "bob", ann |-> "ann@new", ben |-> "ben@new"]

\* the map of a client: silenceCache (alertmanager/client.go:19) or
\* userCache (grafana/client.go:26)
CacheOf(c) == IF c = "silence" THEN silenceCache ELSE userCache

\* the upstream records behind a client
UpstreamOf(c) == IF c = "silence" THEN amSilences ELSE irmUsers

\* the calls that have returned
Returned == { i \in DOMAIN lookups : lookups[i].pc = "done" }

\* a call as it is entered
NewLookup(c, id) ==
  [cache |-> c, id |-> id, pc |-> "rlock", hit |-> FALSE, fetched |-> FALSE,
   err |-> FALSE, value |-> "", after |-> Returned]

\* mutant: the map is never found to hold the id
CacheHas_Never(cache, id) == FALSE

\* client.go:99 / client.go:153: _, exists := cache[id]
CacheHas(cache, id) == id \in DOMAIN cache

\* mutant: a failed fetch goes on to the store
AfterFetch_StoreErrors(ok) == "lock"

\* client.go:110-113 / client.go:170-190: an error returns at once
AfterFetch(ok) == IF ok THEN "lock" ELSE "done"

\* the map with the entry id -> value written
CachePut(cache, id, value) ==
  [x \in (DOMAIN cache) \cup {id} |-> IF x = id THEN value ELSE cache[x]]

\* client.go:92-95 / client.go:146-149: GetSilence(id) or GetUser(id) is
\* called; a blank id returns nil, nil at once
LookupCall(c, id) ==
  /\ Len(lookups) < MaxLookups
  /\ Cardinality(DOMAIN lookups \ Returned) < Cardinality(Runners)
  /\ lookups' = Append(lookups,
       IF id = "" THEN [NewLookup(c, id) EXCEPT !.pc = "done"]
       ELSE NewLookup(c, id))
  /\ UNCHANGED <<env, pc, fetchVars, exportVars, resolveVars, resultsChan,
                 reconCounters, itemCounters, exportCounters, alertStateGauge,
                 caches, irmLog, lastComplete, scrapeVars, amSilences, irmUsers,
                 cacheMutex, tickerVars, ctxDone, inFlight, prevFailed,
                 webhookVars>>

\* client.go:98 / client.go:152: cacheMutex.RLock()
CacheRLock(i) ==
  /\ i \in DOMAIN lookups
  /\ lookups[i].pc = "rlock"
  /\ cacheMutex[lookups[i].cache].writer = 0
  /\ cacheMutex' = [cacheMutex EXCEPT ![lookups[i].cache].readers = @ \cup {i}]
  /\ lookups' = [lookups EXCEPT ![i].pc = "read"]
  /\ UNCHANGED <<env, pc, fetchVars, exportVars, resolveVars, resultsChan,
                 reconCounters, itemCounters, exportCounters, alertStateGauge,
                 caches, irmLog, lastComplete, scrapeVars, amSilences, irmUsers,
                 tickerVars, ctxDone, inFlight, prevFailed,
                 webhookVars>>

\* mutant: on a miss the read lock is kept for the fetch
CacheRead_HoldOnMiss(i) ==
  /\ i \in DOMAIN lookups
  /\ lookups[i].pc = "read"
  /\ LET cache == CacheOf(lookups[i].cache)
         id == lookups[i].id
     IN  IF id \in DOMAIN cache
           THEN /\ lookups' = [lookups EXCEPT ![i] =
                     [@ EXCEPT !.pc = "done", !.hit = TRUE, !.value = cache[id]]]
                /\ cacheMutex' = [cacheMutex EXCEPT
                     ![lookups[i].cache].readers = @ \ {i}]
           ELSE /\ lookups' = [lookups EXCEPT ![i].pc = "fetch"]
                /\ UNCHANGED cacheMutex
  /\ UNCHANGED <<env, pc, fetchVars, exportVars, resolveVars, resultsChan,
                 reconCounters, itemCounters, exportCounters, alertStateGauge,
                 caches, irmLog, lastComplete, scrapeVars, amSilences, irmUsers,
                 tickerVars, ctxDone, inFlight, prevFailed,
                 webhookVars>>

\* client.go:99-103 / client.go:153-157: the map is read and the read lock
\* released; a hit returns the stored value
CacheRead(i) ==
  /\ i \in DOMAIN lookups
  /\ lookups[i].pc = "read"
  /\ cacheMutex' = [cacheMutex EXCEPT ![lookups[i].cache].readers = @ \ {i}]
  /\ LET cache == CacheOf(lookups[i].cache)
         id == lookups[i].id
     IN  lookups' = [lookups EXCEPT ![i] =
           IF CacheHas(cache, id)
             THEN [@ EXCEPT !.pc = "done", !.hit = TRUE, !.value = cache[id]]
             ELSE [@ EXCEPT !.pc = "fetch"]]
  /\ UNCHANGED <<env, pc, fetchVars, exportVars, resolveVars, resultsChan,
                 reconCounters, itemCounters, exportCounters, alertStateGauge,
                 caches, irmLog, lastComplete, scrapeVars, amSilences, irmUsers,
                 tickerVars, ctxDone, inFlight, prevFailed,
                 webhookVars>>

\* client.go:106-113 / client.go:160-190: the upstream GET, with no lock held
UpstreamGet(i) ==
  /\ i \in DOMAIN lookups
  /\ lookups[i].pc = "fetch"
  /\ \E ok \in BOOLEAN :
       lookups' = [lookups EXCEPT ![i] =
         [@ EXCEPT !.pc = AfterFetch(ok), !.fetched = TRUE, !.err = ~ok,
                   !.value = IF ok THEN UpstreamOf(lookups[i].cache)[lookups[i].id]
                              ELSE ""]]
  /\ UNCHANGED <<env, pc, fetchVars, exportVars, resolveVars, resultsChan,
                 reconCounters, itemCounters, exportCounters, alertStateGauge,
                 caches, irmLog, lastComplete, scrapeVars, amSilences, irmUsers,
                 cacheMutex, tickerVars, ctxDone, inFlight, prevFailed,
                 webhookVars>>

\* client.go:116 / client.go:193: cacheMutex.Lock()
CacheLock(i) ==
  /\ i \in DOMAIN lookups
  /\ lookups[i].pc = "lock"
  /\ cacheMutex[lookups[i].cache] = MutexFree
  /\ cacheMutex' = [cacheMutex EXCEPT ![lookups[i].cache].writer = i]
  /\ lookups' = [lookups EXCEPT ![i].pc = "write"]
  /\ UNCHANGED <<env, pc, fetchVars, exportVars, resolveVars, resultsChan,
                 reconCounters, itemCounters, exportCounters, alertStateGauge,
                 caches, irmLog, lastComplete, scrapeVars, amSilences, irmUsers,
                 tickerVars, ctxDone, inFlight, prevFailed,
                 webhookVars>>

\* client.go:117-122 / client.go:194-198: the entry is written, the lock
\* released and the fetched value returned
CacheStore(i) ==
  /\ i \in DOMAIN lookups
  /\ lookups[i].pc = "write"
  /\ cacheMutex' = [cacheMutex EXCEPT ![lookups[i].cache].writer = 0]
  /\ IF lookups[i].cache = "silence"
       THEN /\ silenceCache' = CachePut(silenceCache, lookups[i].id, lookups[i].value)
            /\ UNCHANGED userCache
       ELSE /\ userCache' = CachePut(userCache, lookups[i].id, lookups[i].value)
            /\ UNCHANGED silenceCache
  /\ lookups' = [lookups EXCEPT ![i].pc = "done"]
  /\ UNCHANGED <<env, pc, fetchVars, exportVars, resolveVars, resultsChan,
                 reconCounters, itemCounters, exportCounters, alertStateGauge,
                 irmLog, lastComplete, scrapeVars, amSilences, irmUsers,
                 tickerVars, ctxDone, inFlight, prevFailed,
                 webhookVars>>

\* upstream, an operator edits a silence, or a user changes the e-mail
UpstreamEdit(c, id) ==
  /\ id # ""
  /\ UpstreamOf(c)[id] \in DOMAIN Edited
  /\ IF c = "silence"
       THEN /\ amSilences' = [amSilences EXCEPT ![id] = Edited[@]]
            /\ UNCHANGED irmUsers
       ELSE /\ irmUsers' = [irmUsers EXCEPT ![id] = Edited[@]]
            /\ UNCHANGED amSilences
  /\ UNCHANGED <<env, pc, fetchVars, exportVars, resolveVars, resultsChan,
                 reconCounters, itemCounters, exportCounters, alertStateGauge,
                 caches, irmLog, lastComplete, scrapeVars, lookups, cacheMutex,
                 tickerVars, ctxDone, inFlight, prevFailed,
                 webhookVars>>

\* the two clients as constructed, the engine at rest
CacheInit ==
  /\ amAlerts = <<>>
  /\ irmGroups = <<>>
  /\ amSilences = [s1 |-> "alice", s2 |-> "carol"]
  /\ irmUsers = [u1 |-> "ann", u2 |-> "ben"]
  /\ EngineIdle
  /\ WebhookIdle

CacheNext ==
  \/ \E c \in {"silence", "user"} :
       \E id \in LookupIds[c] :
          \/ LookupCall(c, id)
          \/ UpstreamEdit(c, id)
  \/ \E i \in 1..MaxLookups :
       \/ CacheRLock(i)
       \/ CacheRead(i)
       \/ UpstreamGet(i)
       \/ CacheLock(i)
       \/ CacheStore(i)

\* GetSilence and GetUser called from up to two goroutines at a time
CacheSpec == CacheInit /\ [][CacheNext]_vars

(* ---------------- the loop alone, upstreams that recover ---------------- *)
\* cycles the loop needs at most to clear one fingerprint: one per group
\* that holds it, one per failed fetch stage, one per failed resolve call
LiveCycles == MaxGroups + 2 * MaxFailures

\* main.go:465-478: the ticker lets the loop enter its next cycle
TickCycle(r) ==
  /\ reconciliationTotal < LiveCycles
  /\ RecordReconciliationStart(r)
  /\ UNCHANGED tickerVars

\* reconciler.go:160-163 against an AM that fails at most MaxFailures cycles
FetchAlertsRecovering(r) ==
  /\ GetAllAlerts(r)
  /\ alertsChan'[r].err => reconciliationFailuresTotal < MaxFailures

\* reconciler.go:166-169 against an IRM that fails at most MaxFailures cycles
FetchGroupsRecovering(r) ==
  /\ GetAllAlertGroups(r)
  /\ grafanaChan'[r].err => reconciliationFailuresTotal < MaxFailures

\* reconciler.go:256-267 against an IRM that refuses at most MaxFailures
\* resolve calls
ResolveRecovering(r) ==
  /\ ResolveInconsistency(r)
  /\ resolveFailed' <= MaxFailures

LiveNext ==
  \/ \E r \in {"loop"} :
       \/ TickCycle(r)
       \/ FetchAlertsRecovering(r)
       \/ FetchGroupsRecovering(r)
       \/ JoinFetchFailure(r)
       \/ JoinFetchSuccess(r)
       \/ ExportAlertsWithGrafanaReset(r)
       \/ ExportAlertsWithGrafanaAlert(r)
       \/ ResolveRecovering(r)
       \/ JoinWork(r)

\* the ticker keeps firing and the Go scheduler runs every goroutine that
\* can take a step
LiveSpec == Init /\ [][LiveNext]_vars /\ WF_vars(LiveNext)

\* the loop together with the /metrics scrapes of a Prometheus server
NextScrape == LiveNext \/ MetricsHandler

ScrapeSpec == Init /\ [][NextScrape]_vars

(* ------------- the engine and the webhook on one AM and IRM ------------ *)
\* IRM posts a silence event to /webhook with the configured credentials
\* (handlers.go:366-368); posting the event it posted before is a redelivery
DeliverSilenceEvent ==
  /\ ServeWebhook
  /\ request'.Method = "POST"
  /\ CredentialsMatch(request'.Auth)
  /\ request'.Body.decodes
  /\ IsSilenceEvent(request'.Body.Type)
  /\ request'.Body.Until = "2030-01-01T00:00:00Z"

\* AM holds one alert, silenced; IRM holds one firing group with that alert
EffectsInit ==
  /\ amAlerts = <<MkAlert(1, [state |-> "suppressed", silencedBy |-> <<"s1">>,
                              inhibitedBy |-> <<>>])>>
  /\ irmGroups = <<MkGroup(1, [state |-> "firing", acknowledgedBy |-> "",
                               resolvedBy |-> ""])>>
  /\ amSilences = SilenceCreatedBy
  /\ irmUsers = UserEmail
  /\ EngineIdle
  /\ WebhookIdle

EffectsNext ==
  \/ \E r \in Runners :
       \/ StartCycle(r)
       \/ GetAllAlerts(r)
       \/ GetAllAlertGroups(r)
       \/ JoinFetchFailure(r)
       \/ JoinFetchSuccess(r)
       \/ ExportAlertsWithGrafanaReset(r)
       \/ ExportAlertsWithGrafanaAlert(r)
       \/ ResolveInconsistency(r)
       \/ JoinWork(r)
  \/ DeliverSilenceEvent
  \/ basicAuth
  \/ HandleWebhook
  \/ UnsilenceAlertGroup
  \/ createSilenceForAlert

\* two cycles on the same AM and IRM contents, and silence events delivered
\* once or twice, all on one process
EffectsSpec == EffectsInit /\ [][EffectsNext]_vars

\* one request for every way HandleWebhook can end (handlers.go:205-308):
\* 401, 405, undecodable body, no event type, not a silence event, sender
\* not on the allowlist, no until, until not RFC 3339, no alerts, two alerts
OutcomeRequests ==
  LET hook == [present |-> TRUE, username |-> "hook", password |-> "secret"]
      until == "2030-01-01T00:00:00Z"
      Post(body) == [Method |-> "POST", Auth |-> hook, Body |-> body]
  IN  { [Method |-> "POST", Auth |-> [hook EXCEPT !.password = "guess"],
         Body |-> WebhookEvent(TRUE, "silence", until, "admin@co", 2)],
        [Method |-> "GET", Auth |-> hook,
         Body |-> WebhookEvent(TRUE, "silence", until, "admin@co", 2)],
        Post(WebhookEvent(FALSE, "", "", "", 0)),
        Post(WebhookEvent(TRUE, "", until, "admin@co", 2)),
        Post(WebhookEvent(TRUE, "resolve", until, "admin@co", 2)),
        Post(WebhookEvent(TRUE, "silence", until, "stranger@co", 2)),
        Post(WebhookEvent(TRUE, "silence", "", "admin@co", 2)),
        Post(WebhookEvent(TRUE, "silence", "tomorrow", "admin@co", 2)),
        Post(WebhookEvent(TRUE, "silence", until, "admin@co", 0)),
        Post(WebhookEvent(TRUE, "silence", until, "admin@co", 2)) }

\* handlers.go:366-368: one of these requests reaches /webhook
ServeOutcomeRequest ==
  /\ ServeWebhook
  /\ request' \in OutcomeRequests

\* the loop's cycles next to /webhook requests of every kind
FrameNext ==
  \/ \E r \in {"loop"} :
       \/ StartCycle(r)
       \/ GetAllAlerts(r)
       \/ GetAllAlertGroups(r)
       \/ JoinFetchFailure(r)
       \/ JoinFetchSuccess(r)
       \/ ExportAlertsWithGrafanaReset(r)
       \/ ExportAlertsWithGrafanaAlert(r)
       \/ ResolveInconsistency(r)
       \/ JoinWork(r)
  \/ ServeOutcomeRequest
  \/ basicAuth
  \/ HandleWebhook
  \/ UnsilenceAlertGroup
  \/ createSilenceForAlert

FrameSpec == EffectsInit /\ [][FrameNext]_vars

(* ------------------- /reconcile and its request context ---------------- *)
\* handlers.go:48: a cycle entered by ReconcileHandler runs with r.Context(),
\* which net/http cancels when the client goes away or the server shuts
\* down; the loop's context.Background() (main.go:482) is never cancelled
RequestCancelled(r) ==
  /\ r = "http"
  /\ pc[r] # "idle"
  /\ ~ctxDone[r]
  /\ ctxDone' = [ctxDone EXCEPT ![r] = TRUE]
  /\ UNCHANGED <<env, pc, fetchVars, exportVars, resolveVars, resultsChan,
                 reconCounters, itemCounters, exportCounters, alertStateGauge,
                 caches, irmLog, lastComplete, scrapeVars, lookupVars,
                 tickerVars, prevFailed, inFlight, webhookVars>>

CancelNext ==
  \E r \in {"http"} :
     \/ StartCycle(r)
     \/ GetAllAlerts(r)
     \/ GetAllAlertGroups(r)
     \/ JoinFetchFailure(r)
     \/ JoinFetchSuccess(r)
     \/ ExportAlertsWithGrafanaReset(r)
     \/ ExportAlertsWithGrafanaAlert(r)
     \/ ResolveInconsistency(r)
     \/ JoinWork(r)
     \/ RequestCancelled(r)

\* /reconcile requests served one after the other, each of which may be
\* cancelled while its cycle runs
CancelSpec == Init /\ [][CancelNext]_vars

(* ----------------------- the loop and its ticker ----------------------- *)
\* ticks the ticker has produced so far
TicksFired == ticksConsumed + tickerC + ticksDropped

\* mutant: ticker.C keeps every tick until the loop receives it
TickerFires_Queued ==
  /\ loopStarted
  /\ TicksFired < MaxTicks
  /\ tickerC' = tickerC + 1
  /\ UNCHANGED <<env, pc, fetchVars, exportVars, resolveVars, resultsChan,
                 reconCounters, itemCounters, exportCounters, alertStateGauge,
                 caches, irmLog, lastComplete, scrapeVars, lookupVars,
                 ticksConsumed, ticksDropped, loopStarted, startupVars, decodeVars,
                 ctxDone, inFlight, prevFailed, webhookVars>>

\* main.go:466: the ticker of time.NewTicker(interval), created when the
\* loop starts. Every interval it sends a tick on ticker.C without blocking;
\* ticker.C holds one tick, and a tick that finds it full is dropped
TickerFires ==
  /\ loopStarted
  /\ TicksFired < MaxTicks
  /\ IF tickerC = 0
       THEN tickerC' = 1 /\ UNCHANGED ticksDropped
       ELSE ticksDropped' = ticksDropped + 1 /\ UNCHANGED tickerC
  /\ UNCHANGED <<env, pc, fetchVars, exportVars, resolveVars, resultsChan,
                 reconCounters, itemCounters, exportCounters, alertStateGauge,
                 caches, irmLog, lastComplete, scrapeVars, lookupVars,
                 ticksConsumed, loopStarted, startupVars, decodeVars, ctxDone, inFlight, prevFailed,
                 webhookVars>>

\* main.go:465-472: the loop creates its ticker and runs a cycle at once
LoopStartup ==
  /\ ~loopStarted
  /\ loopStarted' = TRUE
  /\ RecordReconciliationStart("loop")
  /\ UNCHANGED <<tickerC, ticksConsumed, ticksDropped, startupVars, decodeVars>>

\* main.go:475-477: for range ticker.C; the loop is back at the receive only
\* when runOptimizedReconciliation has returned
LoopReceivesTick ==
  /\ loopStarted
  /\ pc["loop"] = "idle"
  /\ tickerC = 1
  /\ tickerC' = 0
  /\ ticksConsumed' = ticksConsumed + 1
  /\ RecordReconciliationStart("loop")
  /\ UNCHANGED <<ticksDropped, loopStarted, startupVars, decodeVars>>

TickerNext ==
  \/ TickerFires
  \/ LoopStartup
  \/ LoopReceivesTick
  \/ \E r \in {"loop"} :
       \/ FetchAlertsRecovering(r)
       \/ FetchGroupsRecovering(r)
       \/ JoinFetchFailure(r)
       \/ JoinFetchSuccess(r)
       \/ ExportAlertsWithGrafanaReset(r)
       \/ ExportAlertsWithGrafanaAlert(r)
       \/ ResolveRecovering(r)
       \/ JoinWork(r)

\* the loop driven by its ticker, cycles of any duration
TickerSpec == Init /\ [][TickerNext]_vars

(* ------------------------- the resolve requests ------------------------ *)
SilencedAlert(i) ==
  MkAlert(i, [state |-> "suppressed", silencedBy |-> <<"s1">>, inhibitedBy |-> <<>>])

\* AM holds f1 and f2 in either order, both silenced or the second active;
\* IRM holds the firing group g1 with f1 and f2, alone or followed by g2
SequentialInit ==
  /\ amAlerts \in { <<SilencedAlert(1), SilencedAlert(2)>>,
                    <<SilencedAlert(2), SilencedAlert(1)>>,
                    <<SilencedAlert(2),
                      MkAlert(1, [state |-> "active", silencedBy |-> <<>>,
                                  inhibitedBy |-> <<>>])>> }
  /\ irmGroups \in
       { <<MkGroup(1, [state |-> "firing", acknowledgedBy |-> "", resolvedBy |-> ""])>>,
         <<MkGroup(1, [state |-> "firing", acknowledgedBy |-> "", resolvedBy |-> ""]),
           MkGroup(2, [state |-> "firing", acknowledgedBy |-> "", resolvedBy |-> ""])>> }
  /\ amSilences = SilenceCreatedBy
  /\ irmUsers = UserEmail
  /\ EngineIdle
  /\ WebhookIdle

SequentialNext ==
  \E r \in Runners :
     \/ StartCycle(r)
     \/ GetAllAlerts(r)
     \/ GetAllAlertGroups(r)
     \/ JoinFetchFailure(r)
     \/ JoinFetchSuccess(r)
     \/ ExportAlertsWithGrafanaReset(r)
     \/ ExportAlertsWithGrafanaAlert(r)
     \/ ResolveAlertGroupSend(r)
     \/ ResolveAlertGroupAnswer(r)
     \/ JoinWork(r)

\* the cycles of the loop and of /reconcile, each ResolveAlertGroup request
\* and its answer as separate steps
SequentialSpec == SequentialInit /\ [][SequentialNext]_vars

(* --------------------------- the decode alone --------------------------- *)
\* IRM has answered a GetAllAlertGroups request with 200 and some body
DecodeInit ==
  /\ amAlerts = <<>>
  /\ irmGroups = <<>>
  /\ amSilences = SilenceCreatedBy
  /\ irmUsers = UserEmail
  /\ CyclesIdle
  /\ Serving
  /\ WebhookIdle
  /\ irmBody \in AlertGroupBodies
  /\ response200 = NoResponse200

DecodeNext == UnmarshalAlertGroups

\* GetAllAlertGroups on every body
DecodeSpec == DecodeInit /\ [][DecodeNext]_vars

(* ------------------------------ start-up ------------------------------- *)
\* the values RECONCILE_INTERVAL is given: every string of at most
\* MaxIntervalLen of these characters
IntervalChars == {"0", "5", "-", "+", "x"}

IntervalStrings ==
  UNION { [1..n -> IntervalChars] : n \in 0..MaxIntervalLen }

\* the environments the process is started in; <<>> is an unset variable
Environments ==
  [GRAFANA_IRM_URL : {<<>>, <<"u">>}, GRAFANA_IRM_TOKEN : {<<>>, <<"t">>},
   WEBHOOK_USERNAME : {<<>>, <<"h">>}, WEBHOOK_PASSWORD : {<<>>, <<"s">>},
   RECONCILE_INTERVAL : IntervalStrings]

Digits == <<"0", "1", "2", "3", "4", "5", "6", "7", "8", "9">>

DigitValue(c) == (CHOOSE i \in DOMAIN Digits : Digits[i] = c) - 1

RECURSIVE Decimal(_, _)
Decimal(digits, acc) ==
  IF digits = <<>> THEN acc
  ELSE Decimal(Tail(digits), 10 * acc + DigitValue(Head(digits)))

\* strconv.Atoi: an optional sign followed by one or more decimal digits
Atoi(str) ==
  LET signed == str # <<>> /\ Head(str) \in {"+", "-"}
      digits == IF signed THEN Tail(str) ELSE str
      ok == digits # <<>> /\ \A i \in DOMAIN digits : digits[i] \in Range(Digits)
  IN  [err |-> ~ok,
       value |-> IF ~ok THEN 0
                 ELSE IF signed /\ Head(str) = "-" THEN 0 - Decimal(digits, 0)
                 ELSE Decimal(digits, 0)]

\* grafana/client.go:32-51: NewClient fails when the URL or the token is unset
NewClient(e) == e.GRAFANA_IRM_URL # <<>> /\ e.GRAFANA_IRM_TOKEN # <<>>

\* a statement of main moves nothing else of the process
mainFrame ==
  UNCHANGED <<env, pc, fetchVars, exportVars, resolveVars, resultsChan,
              reconCounters, itemCounters, exportCounters, alertStateGauge,
              caches, irmLog, lastComplete, scrapeVars, lookupVars,
              tickerC, ticksConsumed, ticksDropped, loopStarted, decodeVars,
              ctxDone, inFlight, prevFailed, webhookVars>>

\* main.go:374-395: the clients, the exporter and the reconciler are made;
\* without an IRM client there is no reconciler and main goes on
NewClients ==
  /\ mainPc = "start"
  /\ grafanaClient' = NewClient(environ)
  /\ mainPc' = "handler"
  /\ UNCHANGED <<environ, webhookHandler, loopsSpawned, mux, listening>>
  /\ mainFrame

\* mutant: a handler is made whatever the credentials are
NewWebhookHandler_Lenient ==
  /\ mainPc = "handler"
  /\ webhookHandler' = grafanaClient
  /\ mainPc' = "background"
  /\ UNCHANGED <<environ, grafanaClient, loopsSpawned, mux, listening>>
  /\ mainFrame

\* main.go:397-401 with handlers.go:176-202: the webhook handler is made only
\* when there is an IRM client; log.Fatal ends the process when the user
\* name or the password is unset
NewWebhookHandler ==
  /\ mainPc = "handler"
  /\ IF grafanaClient
       THEN IF environ.WEBHOOK_USERNAME = <<>> \/ environ.WEBHOOK_PASSWORD = <<>>
              THEN mainPc' = "fatal" /\ UNCHANGED webhookHandler
              ELSE mainPc' = "background" /\ webhookHandler' = TRUE
       ELSE mainPc' = "background" /\ UNCHANGED webhookHandler
  /\ UNCHANGED <<environ, grafanaClient, loopsSpawned, mux, listening>>
  /\ mainFrame

\* mutant: the loop is spawned without a reconciler too
StartBackground_NoReconciler ==
  /\ mainPc = "background"
  /\ LET interval == Atoi(environ.RECONCILE_INTERVAL)
     IN  loopsSpawned' =
           IF /\ environ.RECONCILE_INTERVAL # <<>>
              /\ ~interval.err /\ interval.value > 0
             THEN loopsSpawned + 1 ELSE loopsSpawned
  /\ mainPc' = "routes"
  /\ UNCHANGED <<environ, grafanaClient, webhookHandler, mux, listening>>
  /\ mainFrame

\* main.go:403-421: with a reconciler, RECONCILE_INTERVAL set, parsed and
\* positive, the loop goroutine is spawned
StartBackground ==
  /\ mainPc = "background"
  /\ LET interval == Atoi(environ.RECONCILE_INTERVAL)
     IN  loopsSpawned' =
           IF /\ grafanaClient
              /\ environ.RECONCILE_INTERVAL # <<>>
              /\ ~interval.err /\ interval.value > 0
             THEN loopsSpawned + 1 ELSE loopsSpawned
  /\ mainPc' = "routes"
  /\ UNCHANGED <<environ, grafanaClient, webhookHandler, mux, listening>>
  /\ mainFrame

\* main.go:424-438 with handlers.go:366-368
RegisterRoutes ==
  /\ mainPc = "routes"
  /\ mux' = {"/metrics", "/healthz", "/readyz"}
              \cup (IF grafanaClient /\ webhookHandler THEN {"/webhook"} ELSE {})
  /\ mainPc' = "listen"
  /\ UNCHANGED <<environ, grafanaClient, webhookHandler, loopsSpawned, listening>>
  /\ mainFrame

\* main.go:441-460: the listener is opened, or log.Fatal ends the process
\* when it cannot be
ListenAndServe ==
  /\ mainPc = "listen"
  /\ \E ok \in BOOLEAN :
       IF ok THEN mainPc' = "serving" /\ listening' = TRUE
       ELSE mainPc' = "fatal" /\ UNCHANGED listening
  /\ UNCHANGED <<environ, grafanaClient, webhookHandler, loopsSpawned, mux>>
  /\ mainFrame

\* main.go:411 and 465-472: the spawned goroutine enters the loop
startOptimizedReconciliationLoop ==
  /\ loopsSpawned > 0
  /\ LoopStartup

\* the process before main has run, in any environment
StartupInit ==
  /\ amAlerts = <<MkAlert(1, [state |-> "suppressed", silencedBy |-> <<"s1">>,
                              inhibitedBy |-> <<>>])>>
  /\ irmGroups = <<MkGroup(1, [state |-> "firing", acknowledgedBy |-> "",
                               resolvedBy |-> ""])>>
  /\ amSilences = SilenceCreatedBy
  /\ irmUsers = UserEmail
  /\ EnginePristine
  /\ WebhookIdle
  /\ environ \in Environments
  /\ mainPc = "start"
  /\ grafanaClient = FALSE
  /\ webhookHandler = FALSE
  /\ loopsSpawned = 0
  /\ mux = {}
  /\ listening = FALSE

\* log.Fatal ends the process with all its goroutines
Alive == mainPc # "fatal"

StartupNext ==
  \/ NewClients
  \/ NewWebhookHandler
  \/ StartBackground
  \/ RegisterRoutes
  \/ ListenAndServe
  \/ Alive /\ startOptimizedReconciliationLoop
  \/ Alive /\ TickerFires
  \/ Alive /\ LoopReceivesTick
  \/ \E r \in {"loop"} :
       \/ Alive /\ FetchAlertsRecovering(r)
       \/ Alive /\ FetchGroupsRecovering(r)
       \/ Alive /\ JoinFetchFailure(r)
       \/ Alive /\ JoinFetchSuccess(r)
       \/ Alive /\ ExportAlertsWithGrafanaReset(r)
       \/ Alive /\ ExportAlertsWithGrafanaAlert(r)
       \/ Alive /\ ResolveRecovering(r)
       \/ Alive /\ JoinWork(r)

\* the process from its start, with the loop it may spawn
StartupSpec == StartupInit /\ [][StartupNext]_vars

(* ======================= reconciliation claims ========================= *)
InProgress(r) == pc[r] # "idle"

\* number of ResolveAlertGroup calls a cycle has issued for a fingerprint
CallsFor(r, fp) ==
  Cardinality({ j \in DOMAIN calls[r] : calls[r][j].Fingerprint = fp })

\* a non-resolved group of the cycle's IRM snapshot contains the fingerprint
InNonResolvedGroup(r, fp) ==
  \E i \in DOMAIN grafanaChan[r].payload :
     /\ grafanaChan[r].payload[i].state # "resolved"
     /\ \E j \in DOMAIN grafanaChan[r].payload[i].fingerprints :
          grafanaChan[r].payload[i].fingerprints[j] = fp

\* the resolve calls a cycle owes to the alert: one for a suppressed alert
\* with a silence id that a non-resolved group contains, none otherwise
ResolvesDue(r, alert) ==
  IF /\ alert.state = "suppressed"
     /\ alert.silencedBy # <<>>
     /\ InNonResolvedGroup(r, alert.fingerprint)
  THEN 1 ELSE 0

\* C1: in a cycle whose two fetches succeeded, ResolveAlertGroup is called
\* exactly once for every suppressed alert with a silence id whose fingerprint
\* is in a non-resolved group of the same snapshot, and never for any other
\* alert: no call is issued beyond that at any time, every call belongs to an
\* alert of the snapshot, and when the resolve loop is done each due call has
\* been made.
C1_ResolveCandidacy ==
  \A r \in Runners :
     pc[r] = "working" =>
       LET alerts == alertsChan[r].payload
       IN  /\ \A j \in DOMAIN calls[r] :
                \E i \in DOMAIN alerts : alerts[i].fingerprint = calls[r][j].Fingerprint
           /\ \A i \in DOMAIN alerts :
                /\ CallsFor(r, alerts[i].fingerprint) <= ResolvesDue(r, alerts[i])
                /\ resolvePc[r] = "done" =>
                     CallsFor(r, alerts[i].fingerprint) = ResolvesDue(r, alerts[i])

\* a finished resolve loop that called for one of two silenced alerts only
C1_Witness ==
  \E r \in Runners :
     /\ resolvePc[r] = "done"
     /\ Len(alertsChan[r].payload) = 2
     /\ \A i \in 1..2 : alertsChan[r].payload[i].silencedBy # <<>>
     /\ CallsFor(r, "f1") = 1
     /\ CallsFor(r, "f2") = 0

\* some IRM group that is not resolved holds the fingerprint
FiringInIRM(fp) ==
  \E i \in DOMAIN irmGroups :
     /\ irmGroups[i].state # "resolved"
     /\ \E j \in DOMAIN irmGroups[i].fingerprints : irmGroups[i].fingerprints[j] = fp

\* the i-th AM alert is suppressed and carries a silence id
SilencedInAM(i) ==
  /\ i \in DOMAIN amAlerts
  /\ amAlerts[i].state = "suppressed"
  /\ amAlerts[i].silencedBy # <<>>

\* C2: with the loop scheduled fairly, fetches and resolve calls that fail
\* only finitely often, and IRM marking a group resolved on a successful
\* call, an alert that stays suppressed with a silence id in AM leads to no
\* non-resolved IRM group holding its fingerprint, also when several
\* non-resolved groups hold it at once.
C2_SilencedLeadsToResolved ==
  \A i \in 1..MaxAlerts :
     (SilencedInAM(i) /\ FiringInIRM(amAlerts[i].fingerprint))
        ~> (SilencedInAM(i) /\ ~FiringInIRM(amAlerts[i].fingerprint))

\* two groups that both held f1 while firing have both been resolved by the
\* program, after a failed fetch stage and a refused resolve call
C2_Witness ==
  /\ SilencedInAM(1)
  /\ amAlerts[1].fingerprint = "f1"
  /\ Len(irmGroups) = 2
  /\ \A i \in 1..2 : irmGroups[i].state = "resolved" /\ irmGroups[i].acknowledgedBy = ""
  /\ ~FiringInIRM("f1")
  /\ reconciliationFailuresTotal = 1
  /\ resolveFailed = 1

\* a step of runner r taken while its cycle is in the fetch stage
FetchStageStep(r) ==
  /\ pc[r] = "fetching"
  /\ <<pc[r], alertsChan[r], grafanaChan[r]>>' # <<pc[r], alertsChan[r], grafanaChan[r]>>

\* C3: a cycle one of whose fetches failed is recorded as failed
\* (reconciliation_failures_total + 1, last_reconciliation_success = 0) and
\* returns; during its fetch stage it has issued no resolve call and run no
\* publish, and none of its steps changes the alert_state series.
C3_FetchFailure ==
  [][ \A r \in Runners :
        /\ pc[r] = "fetching" =>
             /\ calls[r] = <<>>
             /\ exportPc[r] = "off" /\ resolvePc[r] = "off"
        /\ FetchStageStep(r) =>
             /\ alertStateGauge' = alertStateGauge
             /\ alertExportTotal' = alertExportTotal
             /\ resolveSucceeded' = resolveSucceeded /\ resolveFailed' = resolveFailed
        /\ (/\ pc[r] = "fetching" /\ pc'[r] # "fetching"
            /\ (alertsChan[r].err \/ grafanaChan[r].err)) =>
             /\ pc'[r] = "idle"
             /\ reconciliationFailuresTotal' = reconciliationFailuresTotal + 1
             /\ lastReconciliationSuccess' = 0
             /\ calls'[r] = <<>>
             /\ exportPc'[r] = "off" /\ resolvePc'[r] = "off" ]_vars

\* a cycle published series, then a later cycle failed at its fetches
C3_Witness ==
  /\ \A r \in Runners : pc[r] = "idle"
  /\ reconciliationTotal = 2
  /\ reconciliationFailuresTotal = 1
  /\ lastReconciliationSuccess = 0
  /\ alertExportTotal = 1
  /\ alertStateGauge # {}

\* C4: whenever no cycle is in progress, inconsistencies_resolved_total is the
\* number of ResolveAlertGroup calls that succeeded and
\* inconsistencies_failed_resolve_total the number that failed.
C4_ItemCounters ==
  (\A r \in Runners : pc[r] = "idle") =>
     /\ inconsistenciesResolved = resolveSucceeded
     /\ inconsistenciesFailedResolve = resolveFailed

\* the series sets a scrape may show: the last completed publish, or the
\* complete set of a publish that is under way
CompleteSets ==
  {lastComplete} \cup
    { AlertFingerprints(alertsChan[r].payload) :
        r \in { x \in Runners : exportPc[x] \in {"start", "loop"} } }

\* C5: a scrape shows the complete series set of the previous publish or of
\* the current one, never an empty or partly rebuilt set.
C5_AtomicRefresh ==
  [][ scraped' # scraped => scraped' \in CompleteSets ]_vars

Authenticated ==
  /\ request.Auth.present
  /\ request.Auth.username = "hook"
  /\ request.Auth.password = "secret"

\* the answer of the pre-checks that follow the first two, for a request
\* that passed those
BodyChecksAnswer ==
  IF ~request.Body.decodes
    THEN response.status = 400
  ELSE IF request.Body.Type = ""
    THEN /\ response.status = 200
         /\ response.bodyStatus = "ignored"
         /\ response.reason = "no event type"
  ELSE IF request.Body.Type # "silence"
    THEN /\ response.status = 200
         /\ response.bodyStatus = "ignored"
         /\ response.reason = "not a silence event"
  ELSE ~(response.status = 200 /\ response.reason \in {"no event type", "not a silence event"})

\* C7 as stated: the pre-checks are applied in the order method (405),
\* credentials (401), body decode (400), empty event.type (200 ignored),
\* non-silence event.type (200 ignored), the first failing one determines
\* the response, so that a non-POST request is answered 405 whatever its
\* credentials.
C7_MethodFirst ==
  webhookPc = "done" =>
    IF request.Method # "POST" THEN response.status = 405
    ELSE IF ~Authenticated THEN response.status = 401
    ELSE BodyChecksAnswer

\* C7 amended: the credentials are checked before the method. The order is
\* credentials (401), method (405), body decode (400), empty event.type
\* (200 ignored), non-silence event.type (200 ignored), and the first failing
\* check determines the response; a non-POST request is answered 405 only if
\* its credentials match, 401 otherwise.
C7_CredentialsFirst ==
  webhookPc = "done" =>
    IF ~Authenticated THEN response.status = 401
    ELSE IF request.Method # "POST" THEN response.status = 405
    ELSE BodyChecksAnswer

\* a GET request with a wrong password has been answered 401
C7_Witness ==
  /\ webhookPc = "done"
  /\ request.Method = "GET"
  /\ request.Auth.present /\ request.Auth.password # "secret"
  /\ response.status = 401

\* C8: a request whose Basic credentials are absent or differ from the
\* configured pair is answered 401 with a WWW-Authenticate: Basic challenge;
\* it never gets past basicAuth and causes no UnsilenceAlertGroup and no
\* CreateSilence call, whatever its method and body.
C8_Unauthorized ==
  (webhookPc # "idle" /\ ~Authenticated) =>
     /\ webhookPc \in {"basicAuth", "done"}
     /\ unsilenceCalls = <<>>
     /\ silenceCalls = <<>>
     /\ webhookPc = "done" =>
          /\ response.status = 401
          /\ response.wwwAuthenticate = "Basic realm=\"Restricted\""

\* a POST of a silence event by a stranger, with the right user name and a
\* wrong password, has been answered 401
C8_Witness ==
  /\ webhookPc = "done"
  /\ request.Method = "POST"
  /\ request.Auth = [present |-> TRUE, username |-> "hook", password |-> "guess"]
  /\ request.Body.decodes /\ request.Body.Type = "silence"
  /\ request.Body.Email = "stranger@co"
  /\ response.status = 401
  /\ unsilenceCalls = <<>>

\* the request is an authenticated POST of a silence event
SilenceEvent ==
  /\ Authenticated
  /\ request.Method = "POST"
  /\ request.Body.decodes
  /\ request.Body.Type = "silence"

\* C9: an authenticated POST of a silence event whose user.email is not in
\* the allow-list causes exactly one UnsilenceAlertGroup(alert_group.id) call
\* and no CreateSilence call, and is answered 200 {status: unsilenced,
\* alert_group_id} if the call succeeds and 500 if it fails.
C9_Unsilence ==
  (SilenceEvent /\ request.Body.Email # "admin@co") =>
     /\ silenceCalls = <<>>
     /\ Len(unsilenceCalls) <= 1
     /\ webhookPc = "done" =>
          /\ Len(unsilenceCalls) = 1
          /\ unsilenceCalls[1].id = request.Body.AlertGroupID
          /\ IF unsilenceCalls[1].ok
               THEN /\ response.status = 200
                    /\ response.bodyStatus = "unsilenced"
                    /\ response.alert_group_id = request.Body.AlertGroupID
               ELSE response.status = 500

\* a stranger's silence event that carried an until time and two alerts has
\* been answered 200 unsilenced after one UnsilenceAlertGroup call
C9_Witness ==
  /\ webhookPc = "done"
  /\ SilenceEvent
  /\ request.Body.Email = "stranger@co"
  /\ request.Body.Until = "2030-01-01T00:00:00Z"
  /\ Len(request.Body.Alerts) = 2
  /\ Len(unsilenceCalls) = 1 /\ unsilenceCalls[1].ok
  /\ response.status = 200

\* number of CreateSilence calls of the request that succeeded
SucceededSilences ==
  Cardinality({ j \in DOMAIN silenceCalls : silenceCalls[j].ok })

\* C10: an authenticated silence event from an allow-listed user with a
\* parseable event.until causes exactly one CreateSilence call per alert of
\* alert_group.last_alert.payload.alerts, in order and also after a failed
\* call, and is answered 200 {status: silenced} with silences_created equal
\* to the number of calls that succeeded if that is at least 1, and 500 if it
\* is 0; it causes no UnsilenceAlertGroup call.
C10_CreateSilences ==
  (/\ SilenceEvent
   /\ request.Body.Email = "admin@co"
   /\ request.Body.Until \in {"2030-01-01T00:00:00Z", "2030-01-01T01:00:00+01:00"}) =>
     /\ unsilenceCalls = <<>>
     /\ Len(silenceCalls) <= Len(request.Body.Alerts)
     /\ \A j \in DOMAIN silenceCalls :
          silenceCalls[j].fingerprint = request.Body.Alerts[j].Fingerprint
     /\ webhookPc = "done" =>
          /\ Len(silenceCalls) = Len(request.Body.Alerts)
          /\ IF SucceededSilences >= 1
               THEN /\ response.status = 200
                    /\ response.bodyStatus = "silenced"
                    /\ response.silences_created = ToString(SucceededSilences)
               ELSE response.status = 500

\* of two CreateSilence calls the first failed and the second succeeded, and
\* the request has been answered 200 with silences_created "1"
C10_Witness ==
  /\ webhookPc = "done"
  /\ SilenceEvent
  /\ request.Body.Email = "admin@co"
  /\ Len(silenceCalls) = 2
  /\ ~silenceCalls[1].ok /\ silenceCalls[2].ok
  /\ response.status = 200
  /\ response.silences_created = "1"

\* the inner alert of the request that a CreateSilence call was made for
AlertOfCall(j) ==
  CHOOSE a \in Range(request.Body.Alerts) : a.Fingerprint = silenceCalls[j].fingerprint

\* the instant an until string denotes, in hours since 2030-01-01T00:00:00Z
InstantOf(until) ==
  IF until = "2030-01-01T02:00:00Z" THEN 2 ELSE 0

\* C11: every silence handed to CreateSilence has exactly one matcher per
\* label of its inner alert, with the label's name and value, exact and not
\* a regex, and no other matcher; its created_by is user.email, its ends_at
\* the instant event.until denotes, and its comment carries the alert
\* group's title, permalink and id.
C11_SilenceContents ==
  \A j \in DOMAIN silenceCalls :
     LET silence == silenceCalls[j].silence
         labels == AlertOfCall(j).Labels
     IN  /\ Cardinality(silence.Matchers) = Cardinality(DOMAIN labels)
         /\ \A k \in DOMAIN labels :
              \E m \in silence.Matchers :
                 /\ m.Name = k /\ m.Value = labels[k]
                 /\ m.IsEqual /\ ~m.IsRegex
         /\ silence.CreatedBy = request.Body.Email
         /\ silence.EndsAt = InstantOf(request.Body.Until)
         /\ silence.Comment.title = request.Body.Title
         /\ silence.Comment.web = request.Body.Web
         /\ silence.Comment.id = request.Body.AlertGroupID

\* a silence with the two matchers alertname=X and severity=warn, ending at
\* 02:00, has been created for admin@co
C11_Witness ==
  /\ webhookPc = "done"
  /\ request.Body.Until = "2030-01-01T02:00:00Z"
  /\ Len(silenceCalls) >= 1
  /\ silenceCalls[1].ok
  /\ Cardinality(silenceCalls[1].silence.Matchers) = 2
  /\ silenceCalls[1].silence.EndsAt = 2
  /\ silenceCalls[1].silence.CreatedBy = "admin@co"

\* the request is an authenticated POST whose body decodes
DecodedEvent ==
  /\ Authenticated
  /\ request.Method = "POST"
  /\ request.Body.decodes

\* C12: an authenticated POST whose event.type is empty or is not "silence"
\* is answered 200 with status ignored and never reaches an upstream call:
\* no UnsilenceAlertGroup and no CreateSilence, whatever its user e-mail and
\* until value.
C12_Ignored ==
  (DecodedEvent /\ request.Body.Type # "silence") =>
     /\ unsilenceCalls = <<>>
     /\ silenceCalls = <<>>
     /\ webhookPc \in {"basicAuth", "HandleWebhook", "done"}
     /\ webhookPc = "done" =>
          /\ response.status = 200
          /\ response.bodyStatus = "ignored"
          /\ response.reason =
               IF request.Body.Type = "" THEN "no event type" ELSE "not a silence event"

\* a stranger's resolve event with an until time and two alerts has been
\* answered 200 ignored
C12_Witness ==
  /\ webhookPc = "done"
  /\ DecodedEvent
  /\ request.Body.Type = "resolve"
  /\ request.Body.Email = "stranger@co"
  /\ request.Body.Until = "2030-01-01T00:00:00Z"
  /\ Len(request.Body.Alerts) = 2
  /\ response.status = 200
  /\ response.bodyStatus = "ignored"

\* C13: for a silence event from an allow-listed user, an empty event.until
\* is answered 200 {status: ignored, reason: no until time} and an
\* event.until that does not parse as RFC-3339 is answered 400; neither
\* causes a CreateSilence or an UnsilenceAlertGroup call.
C13_UntilChecks ==
  (/\ SilenceEvent
   /\ request.Body.Email = "admin@co"
   /\ request.Body.Until \in {"", "tomorrow"}) =>
     /\ unsilenceCalls = <<>>
     /\ silenceCalls = <<>>
     /\ webhookPc \in {"basicAuth", "HandleWebhook", "done"}
     /\ webhookPc = "done" =>
          IF request.Body.Until = ""
            THEN /\ response.status = 200
                 /\ response.bodyStatus = "ignored"
                 /\ response.reason = "no until time"
            ELSE response.status = 400

\* an allow-listed silence event with two alerts and the until value
\* "tomorrow" has been answered 400
C13_Witness ==
  /\ webhookPc = "done"
  /\ SilenceEvent
  /\ request.Body.Email = "admin@co"
  /\ request.Body.Until = "tomorrow"
  /\ Len(request.Body.Alerts) = 2
  /\ response.status = 400


(* ============================ cache claims ============================= *)
\* call j was entered after call i had returned, both with the same
\* non-blank id on the same client, and both have returned
Followed(i, j) ==
  /\ i \in lookups[j].after
  /\ lookups[j].pc = "done"
  /\ lookups[i].cache = lookups[j].cache
  /\ lookups[i].id = lookups[j].id
  /\ lookups[i].id # ""

\* upstream calls a lookup performed
UpstreamCalls(i) == IF lookups[i].fetched THEN 1 ELSE 0

\* C14 as stated: for either cache, a lookup followed by a second lookup of
\* the same non-blank id performs at most one upstream call in total.
C14_AtMostOneFetch ==
  \A i, j \in DOMAIN lookups :
     Followed(i, j) => UpstreamCalls(i) + UpstreamCalls(j) <= 1

\* C14 amended: for either cache, a lookup whose fetch did not fail, followed
\* by a second lookup of the same non-blank id, performs at most one upstream
\* call in total, the second being a hit; a hit returns with no upstream
\* call, a miss makes one upstream call and on success leaves the entry
\* stored. (After a failed fetch nothing is stored and the second lookup
\* fetches again.)
C14_OneFetchUnlessFailed ==
  /\ \A i, j \in DOMAIN lookups :
        (Followed(i, j) /\ ~lookups[i].err) =>
           /\ lookups[j].hit
           /\ UpstreamCalls(i) + UpstreamCalls(j) <= 1
  /\ \A i \in DOMAIN lookups :
        (lookups[i].pc = "done" /\ lookups[i].id # "") =>
           /\ lookups[i].hit <=> ~lookups[i].fetched
           /\ (lookups[i].fetched /\ ~lookups[i].err) =>
                 lookups[i].id \in DOMAIN CacheOf(lookups[i].cache)

\* GetUser("u1") missed, fetched and stored; a second GetUser("u1") was a hit
C14_Witness ==
  /\ Len(lookups) >= 2
  /\ Followed(1, 2)
  /\ lookups[1].cache = "user" /\ lookups[1].id = "u1"
  /\ lookups[1].fetched /\ ~lookups[1].err
  /\ lookups[2].hit /\ ~lookups[2].fetched
  /\ lookups[2].value = "ann"

\* C15 as stated: in both caches, under any interleaving of concurrent
\* lookups, an entry once present stays present with the identical value:
\* no step evicts an entry or overwrites its value.
C15_CacheMonotonic ==
  [][ /\ \A id \in DOMAIN silenceCache :
           id \in DOMAIN silenceCache' /\ silenceCache'[id] = silenceCache[id]
      /\ \A id \in DOMAIN userCache :
           id \in DOMAIN userCache' /\ userCache'[id] = userCache[id] ]_vars

\* call i returns in this step
Returns(i) ==
  /\ i \in DOMAIN lookups'
  /\ lookups'[i].pc = "done"
  /\ i \in DOMAIN lookups => lookups[i].pc # "done"

\* every other lookup of the same id on the same client ended in an error
OthersFailed(j) ==
  \A k \in DOMAIN lookups \ {j} :
     (lookups[k].cache = lookups[j].cache /\ lookups[k].id = lookups[j].id)
        => lookups[k].err

\* C16: a lookup whose upstream fetch fails leaves the cache as it was, so
\* every entry of a cache comes from a fetch that succeeded and a later
\* lookup of the same id fetches again; a lookup with a blank id returns
\* nothing, with no upstream call and no cache write.
C16_FailuresNotCached ==
  /\ [](\A c \in {"silence", "user"} : \A id \in DOMAIN CacheOf(c) :
          \E i \in DOMAIN lookups :
             /\ lookups[i].cache = c /\ lookups[i].id = id
             /\ lookups[i].fetched /\ ~lookups[i].err)
  /\ [](\A i \in DOMAIN lookups :
          /\ lookups[i].err => lookups[i].pc = "done" /\ lookups[i].value = ""
          /\ lookups[i].id = "" =>
               /\ lookups[i].pc = "done"
               /\ ~lookups[i].fetched /\ ~lookups[i].hit
               /\ lookups[i].value = "")
  /\ [](\A i, j \in DOMAIN lookups :
          (Followed(i, j) /\ lookups[i].err /\ OthersFailed(j))
             => lookups[j].fetched)
  /\ [][ \A i \in 1..MaxLookups :
           (Returns(i) /\ (lookups'[i].err \/ lookups'[i].id = ""))
              => UNCHANGED caches ]_vars

\* GetSilence("s1") failed upstream and stored nothing, a second
\* GetSilence("s1") fetched again and stored the author, and a lookup with a
\* blank id returned without a fetch
C16_Witness ==
  /\ Len(lookups) = 3
  /\ Followed(1, 2)
  /\ lookups[1].cache = "silence" /\ lookups[1].id = "s1"
  /\ lookups[1].err
  /\ lookups[2].fetched /\ ~lookups[2].err
  /\ silenceCache = [s1 |-> "alice"]
  /\ lookups[3].id = "" /\ lookups[3].pc = "done"


(* ============================ publish claims =========================== *)
\* the vector holds one series per alert of the snapshot, with value 1 for
\* an active alert and 0 for any other, and no further series
PublishedExactly(alerts, vec) ==
  /\ Cardinality(vec) = Len(alerts)
  /\ \A i \in DOMAIN alerts :
        \E s \in vec :
           /\ s.labels.fingerprint = alerts[i].fingerprint
           /\ s.value = IF alerts[i].state = "active" THEN 1 ELSE 0

\* the publish of runner r returns in this step
PublishReturns(r) == exportPc[r] # "done" /\ exportPc'[r] = "done"

\* C17 as stated: when a publish returns, alert_state holds exactly one
\* series for each alert of the AM snapshot of its cycle, whatever the
\* alert's state, with value 1 if active and 0 otherwise, and nothing else;
\* it is empty for an empty AM snapshot, and an empty IRM snapshot takes no
\* series away.
C17_PublishExact ==
  [][ \A r \in Runners :
        PublishReturns(r) => PublishedExactly(alertsChan[r].payload, alertStateGauge') ]_vars

\* the AM alerts a series was published for
AlertsOf(s) ==
  { i \in DOMAIN amAlerts : amAlerts[i].fingerprint = s.labels.fingerprint }

\* C18: the suppressed label of every published series is "true" if the
\* alert carries at least one silence id and "false" otherwise, whatever the
\* alert's state and whether or not it is inhibited.
C18_SuppressedLabel ==
  \A s \in alertStateGauge :
     /\ AlertsOf(s) # {}
     /\ \A i \in AlertsOf(s) :
          s.labels.suppressed =
            IF amAlerts[i].silencedBy # <<>> THEN "true" ELSE "false"

\* a silenced alert is published with suppressed "true" next to an alert
\* suppressed by inhibition only, published with suppressed "false"
C18_Witness ==
  /\ \E s \in alertStateGauge : \E i \in AlertsOf(s) :
        /\ amAlerts[i].state = "suppressed" /\ amAlerts[i].silencedBy = <<>>
        /\ s.labels.suppressed = "false"
  /\ \E s \in alertStateGauge : \E i \in AlertsOf(s) :
        /\ amAlerts[i].silencedBy # <<>>
        /\ s.labels.suppressed = "true"

\* the groups that hold the fingerprint, by position in the IRM snapshot
GroupsWith(fp) ==
  { i \in DOMAIN irmGroups :
      \E j \in DOMAIN irmGroups[i].fingerprints : irmGroups[i].fingerprints[j] = fp }

\* C19 as stated: a published series carries the labels alert_group_id,
\* acknowledged_at, created_at and resolved_at; for an alert whose
\* fingerprint is in the publish index alert_group_id is the id of the
\* matching (last) group and acknowledged_by, resolved_by are the e-mails of
\* the group's users or empty; for an alert with no matching group
\* alert_group_id, acknowledged_by and resolved_by are empty.
C19_GroupLabels ==
  \A s \in alertStateGauge :
     /\ {"alert_group_id", "acknowledged_at", "created_at", "resolved_at"}
           \subseteq DOMAIN s.labels
     /\ LET with == GroupsWith(s.labels.fingerprint)
        IN  IF with = {}
              THEN /\ s.labels.alert_group_id = ""
                   /\ s.labels.acknowledged_by = ""
                   /\ s.labels.resolved_by = ""
              ELSE /\ s.labels.alert_group_id =
                        irmGroups[CHOOSE i \in with : \A k \in with : k <= i].id
                   /\ s.labels.acknowledged_by \in {"", "u1@co"}
                   /\ s.labels.resolved_by \in {"", "u1@co"}

\* C20: every series on alert_state carries exactly the label names the
\* vector was created with, the defaults followed by the configured alert
\* labels and annotations, and a configured label or annotation that is
\* missing on the alert is published as the empty string.
C20_LabelSchema ==
  \A s \in alertStateGauge :
     /\ DOMAIN s.labels =
          {"alertname", "fingerprint", "suppressed", "acknowledged_by",
           "resolved_by", "silenced_by", "inhibited_by", "severity", "summary"}
     /\ \A i \in AlertsOf(s) :
          /\ s.labels.severity =
               IF "severity" \in DOMAIN amAlerts[i].labels
                 THEN amAlerts[i].labels["severity"] ELSE ""
          /\ s.labels.summary =
               IF "summary" \in DOMAIN amAlerts[i].annotations
                 THEN amAlerts[i].annotations["summary"] ELSE ""

\* in the second cycle two series are published, one of an alert without
\* summary annotation and one of an alert without severity label
C20_Witness ==
  /\ reconciliationTotal = 2
  /\ \E s \in alertStateGauge :
        s.labels.severity = "warn" /\ s.labels.summary = ""
  /\ \E s \in alertStateGauge :
        s.labels.severity = "" /\ s.labels.summary = "disk full"


(* ========================== snapshot claims ============================ *)
\* a fetch channel changes only by receiving its one result in the fetch
\* stage, or by being dropped when the cycle returns
FetchedOnce(r, chan) ==
  chan'[r] # chan[r] =>
     \/ pc[r] = "fetching" /\ pc'[r] = "fetching" /\ ~chan[r].full /\ chan'[r].full
     \/ pc[r] # "idle" /\ pc'[r] = "idle" /\ chan'[r] = NoFetch

\* the export goroutine of r publishes the alert at its position
ExportsAlert(r) ==
  exportPc[r] = "loop" /\ exportIdx'[r] = exportIdx[r] + 1

\* C21: within a cycle the AM snapshot and the IRM snapshot are each fetched
\* once, stay as fetched while the two sub-tasks run, and both sub-tasks work
\* from them: the inconsistencies of the cycle are those of the two
\* snapshots, and every series the publish writes is the series of an alert
\* of the AM snapshot, labelled from the group the IRM snapshot gives it.
C21_SnapshotCoherence ==
  /\ [](\A r \in Runners :
          pc[r] = "working" =>
             inconsistencies[r] =
               FindInconsistencies(alertsChan[r].payload, grafanaChan[r].payload))
  /\ [][ \A r \in Runners :
           /\ FetchedOnce(r, alertsChan)
           /\ FetchedOnce(r, grafanaChan)
           /\ (pc[r] = "working" /\ pc'[r] = "working") =>
                 /\ alertsChan'[r] = alertsChan[r]
                 /\ grafanaChan'[r] = grafanaChan[r]
                 /\ inconsistencies'[r] = inconsistencies[r]
           /\ ExportsAlert(r) =>
                 LET alert == alertsChan[r].payload[exportIdx[r]]
                     index == GrafanaMap(grafanaChan[r].payload)
                 IN  \E s \in alertStateGauge' \ { t \in alertStateGauge :
                                                       t.labels.fingerprint # alert.fingerprint } :
                        /\ s.labels.fingerprint = alert.fingerprint
                        /\ s.labels.resolved_by # "" =>
                              /\ alert.fingerprint \in DOMAIN index
                              /\ index[alert.fingerprint].resolvedBy # "" ]_vars

\* both sub-tasks of a cycle have finished on a snapshot that IRM has moved
\* away from in the meantime
C21_Witness ==
  \E r \in Runners :
     /\ pc[r] = "working"
     /\ exportPc[r] = "done" /\ resolvePc[r] = "done"
     /\ inconsistencies[r] # <<>>
     /\ grafanaChan[r].payload # irmGroups
     /\ alertStateGauge # {}


(* =========================== scheduling claims ========================= *)
\* C22 as stated: the first cycle starts at once when the loop starts, one
\* cycle runs for every tick of the ticker and no tick is skipped, however
\* long a cycle lasts, and a tick is consumed only after the current cycle
\* has returned.
C22_NoTickSkipped ==
  /\ loopStarted => reconciliationTotal = 1 + ticksConsumed
  /\ ticksDropped = 0

\* C22, amended: the first cycle starts at once when the loop starts, before
\* any tick is consumed; thereafter one cycle starts for every tick the loop
\* consumes, and a tick is consumed only after the current cycle has
\* returned; while a cycle runs at most one tick is kept waiting, and a tick
\* is dropped only when one is already waiting.
C22_TickerLoop ==
  /\ [](/\ tickerC \in {0, 1}
        /\ reconciliationTotal = IF loopStarted THEN 1 + ticksConsumed ELSE 0
        /\ ~loopStarted => TicksFired = 0 /\ pc["loop"] = "idle")
  /\ [][ /\ ticksConsumed' # ticksConsumed =>
              /\ ticksConsumed' = ticksConsumed + 1
              /\ loopStarted
              /\ pc["loop"] = "idle" /\ pc'["loop"] = "fetching"
         /\ ticksDropped' # ticksDropped =>
              /\ ticksDropped' = ticksDropped + 1
              /\ tickerC = 1 /\ tickerC' = 1 ]_vars

\* two ticks fired during one cycle: one was kept and started the next
\* cycle, the other was dropped
C22_Witness ==
  /\ loopStarted
  /\ ticksDropped = 1
  /\ ticksConsumed = 1
  /\ reconciliationTotal = 2
  /\ pc["loop"] = "fetching"


(* ========================= resolved-group claims ======================= *)
\* a group of the cycle's IRM snapshot contains the fingerprint
InSomeGroup(r, fp) ==
  \E i \in DOMAIN grafanaChan[r].payload :
     \E j \in DOMAIN grafanaChan[r].payload[i].fingerprints :
        grafanaChan[r].payload[i].fingerprints[j] = fp

\* the alert is in SilencedFiring and only resolved groups of the cycle's
\* IRM snapshot contain its fingerprint
StaleSilenced(r, alert) ==
  /\ alert.state = "suppressed" /\ alert.silencedBy # <<>>
  /\ InSomeGroup(r, alert.fingerprint)
  /\ ~InNonResolvedGroup(r, alert.fingerprint)

\* C23: a SilencedFiring alert whose fingerprint is held by resolved groups
\* only gets no ResolveAlertGroup call and is no inconsistency of the cycle
\* (a cycle with no other candidate records inconsistencies_found = 0), yet
\* the publish matches it to its resolved group: it can publish the series
\* with the e-mail of the user who resolved the group (it does when the
\* lookup of that user succeeds), and the series carries that e-mail
\* whenever the user is in the cache after the lookup.
C23_ResolvedGroupsSkipped ==
  /\ [](\A r \in Runners :
          pc[r] = "working" =>
            \A i \in DOMAIN alertsChan[r].payload :
               LET alert == alertsChan[r].payload[i]
               IN  StaleSilenced(r, alert) =>
                     /\ CallsFor(r, alert.fingerprint) = 0
                     /\ \A j \in DOMAIN inconsistencies[r] :
                          inconsistencies[r][j].Fingerprint # alert.fingerprint
                     /\ (exportPc[r] = "loop" /\ exportIdx[r] = i) =>
                          ENABLED (/\ ExportAlertsWithGrafanaAlert(r)
                                   /\ \E s \in alertStateGauge' :
                                        /\ s.labels.fingerprint = alert.fingerprint
                                        /\ s.labels.resolved_by = "u1@co"))
  /\ [][ \A r \in Runners :
           /\ (/\ pc[r] = "working" /\ pc'[r] = "idle"
               /\ \A i \in DOMAIN alertsChan[r].payload :
                     LET alert == alertsChan[r].payload[i]
                     IN  (alert.state = "suppressed" /\ alert.silencedBy # <<>>)
                           => ~InNonResolvedGroup(r, alert.fingerprint))
                => inconsistenciesFound' = 0
           /\ (ExportsAlert(r)
                  /\ StaleSilenced(r, alertsChan[r].payload[exportIdx[r]])) =>
                 \E s \in alertStateGauge' :
                    /\ s.labels.fingerprint =
                         alertsChan[r].payload[exportIdx[r]].fingerprint
                    /\ s.labels.suppressed = "true"
                    /\ s.labels.resolved_by =
                         IF "u1" \in DOMAIN userCache' THEN "u1@co" ELSE "" ]_vars

\* a cycle has finished both sub-tasks on a silenced alert f1 held by a
\* resolved group only: no call was made and the series names the resolver
C23_Witness ==
  \E r \in Runners :
     /\ pc[r] = "working"
     /\ exportPc[r] = "done" /\ resolvePc[r] = "done"
     /\ Len(alertsChan[r].payload) >= 1
     /\ StaleSilenced(r, alertsChan[r].payload[1])
     /\ calls[r] = <<>>
     /\ \E s \in alertStateGauge :
          s.labels.fingerprint = "f1" /\ s.labels.resolved_by = "u1@co"


(* ======================== resolve-failure claims ======================= *)
\* the step is a ResolveAlertGroup call of r that returned an error
FailedCall(r) ==
  /\ Len(calls'[r]) = Len(calls[r]) + 1
  /\ ~calls'[r][Len(calls'[r])].ok

\* the cycle of r returns from its work stage
WorkReturns(r) == pc[r] = "working" /\ pc'[r] = "idle"

\* C24: a ResolveAlertGroup call that fails leaves the cycle's outcome
\* alone and the loop goes on to the next item; when the cycle returns every
\* item of X has been attempted, in order, and the cycle is recorded as a
\* success (last_reconciliation_success = 1, reconciliation_failures_total
\* unchanged), also when every call failed.
C24_ResolveFailureTolerated ==
  [][ \A r \in Runners :
        /\ FailedCall(r) =>
              /\ resolveIdx'[r] = resolveIdx[r] + 1
              /\ resolvePc'[r] =
                   IF resolveIdx[r] < Len(inconsistencies[r]) THEN "loop" ELSE "done"
              /\ reconciliationFailuresTotal' = reconciliationFailuresTotal
              /\ lastReconciliationSuccess' = lastReconciliationSuccess
              /\ pc'[r] = "working"
        /\ WorkReturns(r) =>
              /\ Len(calls[r]) = Len(inconsistencies[r])
              /\ \A j \in DOMAIN calls[r] :
                   /\ calls[r][j].Fingerprint = inconsistencies[r][j].Fingerprint
                   /\ calls[r][j].GrafanaAlertGroupID =
                        inconsistencies[r][j].GrafanaAlertGroupID
              /\ lastReconciliationSuccess' = 1
              /\ reconciliationFailuresTotal' = reconciliationFailuresTotal ]_vars

\* a single cycle whose two resolve calls both failed has been recorded as a
\* success
C24_Witness ==
  /\ \A r \in Runners : pc[r] = "idle"
  /\ reconciliationTotal = 1
  /\ resolveFailed = 2 /\ resolveSucceeded = 0
  /\ lastReconciliationSuccess = 1
  /\ reconciliationFailuresTotal = 0
  /\ inconsistenciesFound = 2


(* ========================= cancellation claims ========================= *)
\* C25: once the cancellation signal of a cycle is raised, the cycle issues
\* no further ResolveAlertGroup call and no further IRM fetch, no cycle is
\* started on the cancelled context, and the cycle returns recorded as a
\* cycle failure (reconciliation_failures_total + 1, last success 0) with no
\* resolve failure counted for the cancellation.
C25_CancelObserved ==
  [][ \A r \in Runners :
        ctxDone[r] =>
          /\ calls'[r] = calls[r] \/ calls'[r] = <<>>
          /\ resolveFailed' = resolveFailed /\ resolveSucceeded' = resolveSucceeded
          /\ inconsistenciesFailedResolve' = inconsistenciesFailedResolve
          /\ (pc[r] # "idle" /\ pc'[r] = "idle") =>
                /\ reconciliationFailuresTotal' = reconciliationFailuresTotal + 1
                /\ lastReconciliationSuccess' = 0 ]_vars


(* ============================ counter claims =========================== *)
\* runner r enters a cycle
CycleStarts(r) == pc[r] = "idle" /\ pc'[r] # "idle"

\* the cycle of r returns with an error: a fetch failed, or the publish
\* reported an error
CycleEndsFailed(r) ==
  /\ pc[r] # "idle" /\ pc'[r] = "idle"
  /\ \/ alertsChan[r].err \/ grafanaChan[r].err
     \/ \E j \in DOMAIN resultsChan[r] : resultsChan[r][j].err

\* C26: reconciliation_total grows by one with every cycle that starts and
\* at no other step, reconciliation_failures_total grows by one with every
\* cycle that ends failed and at no other step, and
\* reconciliation_failures_total <= reconciliation_total throughout.
C26_CycleCounters ==
  /\ [](reconciliationFailuresTotal <= reconciliationTotal)
  /\ [][ /\ reconciliationTotal' =
              reconciliationTotal + Cardinality({ r \in Runners : CycleStarts(r) })
         /\ reconciliationFailuresTotal' =
              reconciliationFailuresTotal
                + Cardinality({ r \in Runners : CycleEndsFailed(r) }) ]_vars

\* a cycle that failed at its fetches was followed by one that succeeded
C26_Witness ==
  /\ \A r \in Runners : pc[r] = "idle"
  /\ reconciliationTotal = 2
  /\ reconciliationFailuresTotal = 1
  /\ lastReconciliationSuccess = 1

\* |X| of the cycle of r: the alerts of its AM snapshot that are suppressed
\* with a silence id and held by a non-resolved group of its IRM snapshot
SizeOfX(r) ==
  Cardinality({ i \in DOMAIN alertsChan[r].payload :
                  ResolvesDue(r, alertsChan[r].payload[i]) = 1 })

\* C27: when a cycle returns without failure, inconsistencies_found is set
\* to |X| of that cycle, however many of its resolve calls succeeded.
C27_FoundIsSizeOfX ==
  [][ \A r \in Runners :
        (WorkReturns(r) /\ ~CycleEndsFailed(r)) =>
           /\ inconsistenciesFound' = SizeOfX(r)
           /\ lastReconciliationSuccess' = 1 ]_vars

\* the last cycle found two inconsistencies and resolved one of them
C27_Witness ==
  /\ \A r \in Runners : pc[r] = "idle"
  /\ inconsistenciesFound = 2
  /\ resolveSucceeded = 1 /\ resolveFailed = 1
  /\ reconciliationTotal = 1
  /\ lastReconciliationSuccess = 1


(* ========================== idempotency claims ========================= *)
\* the step is a ResolveAlertGroup call of r that IRM answered 2xx
ResolveCallOk(r) ==
  /\ Len(calls'[r]) = Len(calls[r]) + 1
  /\ calls'[r][Len(calls'[r])].ok

\* the group is already resolved in IRM
AlreadyResolved(id) ==
  \A i \in DOMAIN irmGroups : irmGroups[i].id = id => irmGroups[i].state = "resolved"

\* the step is an UnsilenceAlertGroup call that IRM answered 2xx
UnsilenceCallOk ==
  /\ Len(unsilenceCalls') = Len(unsilenceCalls) + 1
  /\ unsilenceCalls'[Len(unsilenceCalls')].ok

\* the step is a CreateSilence call that AM answered 2xx
CreateCallOk ==
  /\ Len(silenceCalls') = Len(silenceCalls) + 1
  /\ silenceCalls'[Len(silenceCalls')].ok

\* the silence of the CreateSilence call made in the step
CreatedSilence == silenceCalls'[Len(silenceCalls')].silence

\* the group's state in IRM as far as resolving goes
ResolveState(groups) == [i \in DOMAIN groups |-> <<groups[i].id, groups[i].state>>]

\* resolve and unsilence repeated on a group leave IRM as it is
IrmEffectsIdempotent ==
  /\ \A r \in Runners :
        (ResolveCallOk(r)
           /\ AlreadyResolved(calls'[r][Len(calls'[r])].GrafanaAlertGroupID)) =>
          ResolveState(irmGroups') = ResolveState(irmGroups)
  /\ (UnsilenceCallOk /\ request.Body.AlertGroupID \notin irmSilenced) =>
        irmSilenced' = irmSilenced

StillPresent(r, fp) ==
  \E i \in DOMAIN alertsChan[r].payload :
     /\ alertsChan[r].payload[i].fingerprint = fp
     /\ ResolvesDue(r, alertsChan[r].payload[i]) = 1

\* C29: within a cycle each inconsistency of the list is attempted once, in
\* order, whatever the earlier calls returned, so no call is made again
\* after a failure; and when the resolve loop of a cycle is done, an
\* inconsistency whose call failed in the runner's previous cycle has been
\* attempted in this one exactly when this cycle's snapshots still hold it.
C29_RetryByNextCycle ==
  \A r \in Runners :
     pc[r] = "working" =>
       /\ Len(calls[r]) = resolveIdx[r] - 1
       /\ \A j \in DOMAIN calls[r] :
            /\ calls[r][j].Fingerprint = inconsistencies[r][j].Fingerprint
            /\ calls[r][j].GrafanaAlertGroupID =
                 inconsistencies[r][j].GrafanaAlertGroupID
       /\ \A i \in DOMAIN alertsChan[r].payload :
            CallsFor(r, alertsChan[r].payload[i].fingerprint) <= 1
       /\ resolvePc[r] = "done" =>
            \A fp \in prevFailed[r] :
               (CallsFor(r, fp) = 1) <=> StillPresent(r, fp)

\* the resolve call of an inconsistency failed in the loop's previous cycle;
\* this cycle's snapshots still hold it and the call was made once more
C29_Witness ==
  /\ pc["loop"] = "working" /\ resolvePc["loop"] = "done"
  /\ \E fp \in prevFailed["loop"] :
        StillPresent("loop", fp) /\ CallsFor("loop", fp) = 1


(* ============================ lookup claims ============================ *)
\* the label is empty whenever the id it is looked up from is not in the
\* cache after the lookup, that is, whenever the lookup failed
EmptyOnFailure(label, id, cache) ==
  (id # "" /\ id \notin DOMAIN cache) => label = ""

\* C30: a user lookup or silence-author lookup that fails while an alert is
\* published never fails the publish and never drops the series: the step
\* writes the alert's series with the affected label (silenced_by,
\* acknowledged_by, resolved_by) empty, the loop goes on to the remaining
\* alerts, and the export reports no error and counts no failure.
C30_LookupFailureTolerated ==
  /\ [](/\ alertExportFailuresTotal = 0
        /\ \A r \in Runners : \A i \in DOMAIN resultsChan[r] : ~resultsChan[r][i].err)
  /\ [][ \A r \in Runners :
           ExportsAlert(r) =>
             LET alert == alertsChan[r].payload[exportIdx[r]]
                 index == GrafanaMap(grafanaChan[r].payload)
                 hasGroup == alert.fingerprint \in DOMAIN index
             IN  /\ \E s \in alertStateGauge' :
                      /\ s.labels.fingerprint = alert.fingerprint
                      /\ Len(alert.silencedBy) > 0 =>
                           EmptyOnFailure(s.labels.silenced_by,
                                          alert.silencedBy[1], silenceCache')
                      /\ hasGroup =>
                           /\ EmptyOnFailure(s.labels.acknowledged_by,
                                             index[alert.fingerprint].acknowledgedBy,
                                             userCache')
                           /\ EmptyOnFailure(s.labels.resolved_by,
                                             index[alert.fingerprint].resolvedBy,
                                             userCache')
                 /\ alertStateGauge \subseteq alertStateGauge'
                      \cup { t \in alertStateGauge :
                               t.labels.fingerprint = alert.fingerprint }
                 /\ exportPc'[r] =
                      IF exportIdx[r] = Len(alertsChan[r].payload)
                        THEN "done" ELSE "loop" ]_vars

\* a publish has finished in which the silence-author lookup of one alert
\* and the user lookup of a resolved group failed: the series of every alert
\* of the snapshot is there, the two labels empty
C30_Witness ==
  \E r \in Runners :
     /\ pc[r] = "working" /\ exportPc[r] = "done"
     /\ Len(alertsChan[r].payload) = 2
     /\ AlertFingerprints(alertsChan[r].payload) = SeriesFingerprints(alertStateGauge)
     /\ \E i \in DOMAIN alertsChan[r].payload :
          LET alert == alertsChan[r].payload[i]
          IN  /\ Len(alert.silencedBy) > 0
              /\ alert.silencedBy[1] \notin DOMAIN silenceCache
              /\ \E s \in alertStateGauge :
                   /\ s.labels.fingerprint = alert.fingerprint
                   /\ s.labels.suppressed = "true"
                   /\ s.labels.silenced_by = ""
     /\ \E i \in DOMAIN alertsChan[r].payload :
          LET alert == alertsChan[r].payload[i]
              index == GrafanaMap(grafanaChan[r].payload)
          IN  /\ alert.fingerprint \in DOMAIN index
              /\ index[alert.fingerprint].resolvedBy # ""
              /\ index[alert.fingerprint].resolvedBy \notin DOMAIN userCache
              /\ \E s \in alertStateGauge :
                   /\ s.labels.fingerprint = alert.fingerprint
                   /\ s.labels.resolved_by = ""


(* ============================ start-up claims ========================== *)
CredentialsMissing ==
  environ.WEBHOOK_USERNAME = <<>> \/ environ.WEBHOOK_PASSWORD = <<>>

\* main has gone past the construction of the webhook handler
PastConstruction == mainPc \notin {"start", "handler"}

\* the process has ended in log.Fatal without opening the listener
AbortsBeforeListening ==
  ~listening /\ (PastConstruction => mainPc = "fatal")

\* C31 as stated: whenever the webhook user name or password is missing at
\* startup, the process aborts with a fatal error before the listener is
\* opened.
C31_MissingCredentialsAbort ==
  CredentialsMissing => AbortsBeforeListening

\* C31, amended: when IRM is configured and the webhook user name or
\* password is missing, the process aborts with a fatal error before the
\* listener is opened; when IRM is not configured the credentials are not
\* looked at: no webhook handler is made and /webhook is not registered.
C31_MissingCredentialsAbortWithIrm ==
  CredentialsMissing =>
     IF NewClient(environ)
       THEN AbortsBeforeListening
       ELSE ~webhookHandler /\ "/webhook" \notin mux

\* IRM is configured and the password is unset: main has ended in log.Fatal
\* with no route registered, no loop spawned and no listener
C31_Witness ==
  /\ NewClient(environ)
  /\ environ.WEBHOOK_USERNAME # <<>> /\ environ.WEBHOOK_PASSWORD = <<>>
  /\ environ.RECONCILE_INTERVAL = <<"5">>
  /\ mainPc = "fatal"
  /\ mux = {} /\ loopsSpawned = 0 /\ ~listening

\* RECONCILE_INTERVAL is a positive number of seconds
PositiveInterval ==
  LET interval == Atoi(environ.RECONCILE_INTERVAL)
  IN  ~interval.err /\ interval.value > 0

\* main has gone past the start of the background loop, and was not ended
PastBackground == mainPc \in {"routes", "listen", "serving"}

\* the loop is spawned once when enabled holds and never otherwise, and no
\* cycle runs without it
LoopRunsIff(enabled) ==
  /\ loopsSpawned <= 1
  /\ ~enabled => loopsSpawned = 0 /\ ~loopStarted /\ reconciliationTotal = 0
  /\ (enabled /\ PastBackground) => loopsSpawned = 1
  /\ loopStarted => loopsSpawned = 1

Holds(group, fp) ==
  \E j \in DOMAIN group.fingerprints : group.fingerprints[j] = fp

\* position of the last group of the sequence that holds the non-empty
\* fingerprint (among the non-resolved groups only, if so asked); 0 if none
LastHolder(groups, fp, nonResolvedOnly) ==
  LET holders == { i \in DOMAIN groups :
                     /\ fp # ""
                     /\ Holds(groups[i], fp)
                     /\ nonResolvedOnly => groups[i].state # "resolved" }
  IN  IF holders = {} THEN 0
      ELSE CHOOSE i \in holders : \A k \in holders : k <= i

AnyFingerprint == Range(FPNames) \cup {""}

\* C33: in a cycle, the reconciliation index maps every fingerprint held by
\* a non-resolved group of the fetched sequence to the id of the last such
\* group, the publish index maps every fingerprint held by any group to the
\* last such group, the empty fingerprint has no entry in either, every
\* resolve call goes to the last non-resolved holder, and a series written
\* by the publish gets a resolved_by only from the last holder of its
\* fingerprint.
C33_LastGroupWins ==
  /\ [](\A r \in Runners :
          pc[r] = "working" =>
            LET groups == grafanaChan[r].payload
                forReconcile == GrafanaFingerprints(groups)
                forPublish == GrafanaMap(groups)
            IN  /\ DOMAIN forReconcile =
                     { fp \in AnyFingerprint : LastHolder(groups, fp, TRUE) > 0 }
                /\ \A fp \in DOMAIN forReconcile :
                     forReconcile[fp] = groups[LastHolder(groups, fp, TRUE)].id
                /\ DOMAIN forPublish =
                     { fp \in AnyFingerprint : LastHolder(groups, fp, FALSE) > 0 }
                /\ \A fp \in DOMAIN forPublish :
                     forPublish[fp] = groups[LastHolder(groups, fp, FALSE)]
                /\ \A j \in DOMAIN calls[r] :
                     /\ LastHolder(groups, calls[r][j].Fingerprint, TRUE) > 0
                     /\ calls[r][j].GrafanaAlertGroupID =
                          groups[LastHolder(groups, calls[r][j].Fingerprint, TRUE)].id)
  /\ [][ \A r \in Runners :
           ExportsAlert(r) =>
             LET alert == alertsChan[r].payload[exportIdx[r]]
                 groups == grafanaChan[r].payload
                 last == LastHolder(groups, alert.fingerprint, FALSE)
             IN  \A s \in alertStateGauge' \ alertStateGauge :
                    /\ s.labels.fingerprint = alert.fingerprint
                    /\ s.labels.resolved_by # "" =>
                         last > 0 /\ groups[last].resolvedBy # "" ]_vars

\* f1 is held by the firing groups g1 and g2, g1 also holds an alert without
\* fingerprint: the one resolve call for f1 went to g2
C33_Witness ==
  \E r \in Runners :
     /\ pc[r] = "working" /\ resolvePc[r] = "done"
     /\ Len(grafanaChan[r].payload) = 2
     /\ \A i \in 1..2 : /\ grafanaChan[r].payload[i].state = "firing"
                        /\ Holds(grafanaChan[r].payload[i], "f1")
     /\ Holds(grafanaChan[r].payload[1], "")
     /\ \E j \in DOMAIN calls[r] :
          calls[r][j].Fingerprint = "f1" /\ calls[r][j].GrafanaAlertGroupID = "g2"
     /\ CallsFor(r, "f1") = 1


(* ============================= order claims ============================ *)
\* fingerprints of the entries of a sequence of calls or inconsistencies
Fingerprints(seq) == [i \in DOMAIN seq |-> seq[i].Fingerprint]

\* the inconsistent alerts of the cycle in the order of the AM snapshot
InSnapshotOrder(r) ==
  LET due == SelectSeq(alertsChan[r].payload, LAMBDA a : ResolvesDue(r, a) = 1)
  IN  [i \in DOMAIN due |-> due[i].fingerprint]

IsPrefix(p, q) == Len(p) <= Len(q) /\ \A i \in DOMAIN p : p[i] = q[i]

\* C34: the resolve loop is sequential: a cycle has at most one
\* ResolveAlertGroup request in flight, none once its resolve loop is done,
\* and the requests answered and in flight, in the order they were sent,
\* are the inconsistent alerts in the order of the AM snapshot.
C34_SequentialResolve ==
  \A r \in Runners :
     /\ Len(inFlight[r]) <= 1
     /\ (pc[r] # "working" \/ resolvePc[r] = "done") => inFlight[r] = <<>>
     /\ pc[r] = "working" =>
          /\ IsPrefix(Fingerprints(calls[r]) \o Fingerprints(inFlight[r]),
                      InSnapshotOrder(r))
          /\ resolvePc[r] = "done" => Fingerprints(calls[r]) = InSnapshotOrder(r)

\* AM returned f2 before f1: the loop's cycle has its request for f2
\* answered and the one for f1 in flight, while the cycle of /reconcile has
\* its own request in flight
C34_Witness ==
  /\ pc["loop"] = "working"
  /\ Len(alertsChan["loop"].payload) = 2
  /\ alertsChan["loop"].payload[1].fingerprint = "f2"
  /\ Fingerprints(calls["loop"]) = <<"f2">>
  /\ Fingerprints(inFlight["loop"]) = <<"f1">>
  /\ Len(inFlight["http"]) = 1


(* ============================ decoding claims ========================== *)
\* the values of a timestamp field that are RFC 3339 strings
Parseable(data) ==
  /\ data.kind = "string"
  /\ data.text \in {"2030-01-01T00:00:00Z", "2030-01-01T01:00:00+01:00",
                    "2030-01-01T02:00:00Z"}

\* the field decoded as the claim has it
DecodedAsClaimed(data, nt) ==
  IF Parseable(data)
    THEN nt.Valid /\ nt.Time = InstantOf(data.text)
    ELSE nt = ZeroNullableTime

\* C35: decoding a timestamp field never fails the alert-group fetch: a
\* well-formed body is returned without error whatever its timestamps are;
\* null, a field left out, the empty string and a value that does not parse
\* all decode to the one absent value, and an RFC 3339 string decodes to
\* the instant it denotes.
C35_TimestampDecode ==
  (response200.returned /\ irmBody.wellFormed) =>
     /\ ~response200.err
     /\ Len(response200.groups) = Len(irmBody.results)
     /\ \A i \in DOMAIN irmBody.results :
          /\ response200.groups[i].ID = irmBody.results[i].id
          /\ DecodedAsClaimed(irmBody.results[i].created_at,
                              response200.groups[i].CreatedAt)
          /\ DecodedAsClaimed(irmBody.results[i].resolved_at,
                              response200.groups[i].ResolvedAt)

\* a body of two groups was returned without error: created_at "tomorrow"
\* and resolved_at null in the first, both absent; an RFC 3339 created_at
\* with an offset and no resolved_at in the second
C35_Witness ==
  /\ response200.returned /\ ~response200.err
  /\ Len(irmBody.results) = 2
  /\ irmBody.results[1].created_at = [kind |-> "string", text |-> "tomorrow"]
  /\ irmBody.results[1].resolved_at.kind = "null"
  /\ response200.groups[1].CreatedAt = response200.groups[1].ResolvedAt
  /\ ~response200.groups[1].CreatedAt.Valid
  /\ irmBody.results[2].created_at =
       [kind |-> "string", text |-> "2030-01-01T01:00:00+01:00"]
  /\ irmBody.results[2].resolved_at.kind = "omitted"
  /\ response200.groups[2].CreatedAt = [Time |-> 0, Valid |-> TRUE]
  /\ ~response200.groups[2].ResolvedAt.Valid


(* ============================ outcome claims =========================== *)
\* the cycle of r leaves its fetch stage with an error
FetchStageFails(r) == pc[r] = "fetching" /\ pc'[r] = "idle"

\* C36: a cycle whose two fetches succeeded leaves its work stage only by
\* returning, recorded as a success with the size of X as
\* inconsistencies_found; the publish never reports an error,
\* alert_export_failures_total is never incremented, and
\* reconciliation_failures_total is incremented only by a cycle that fails
\* at its fetch stage.
C36_SuccessAfterFetch ==
  /\ [](\A r \in Runners : \A i \in DOMAIN resultsChan[r] :
           resultsChan[r][i].name = "metrics_export" => ~resultsChan[r][i].err)
  /\ [][ /\ alertExportFailuresTotal' = alertExportFailuresTotal
         /\ reconciliationFailuresTotal' # reconciliationFailuresTotal =>
              \E r \in Runners : FetchStageFails(r)
         /\ \A r \in Runners :
              /\ (pc[r] = "fetching" /\ pc'[r] = "working") =>
                    ~alertsChan[r].err /\ ~grafanaChan[r].err
              /\ (pc[r] = "working" /\ pc'[r] # "working") =>
                    /\ pc'[r] = "idle"
                    /\ lastReconciliationSuccess' = 1
                    /\ inconsistenciesFound' = Len(inconsistencies[r])
                    /\ reconciliationFailuresTotal' = reconciliationFailuresTotal
       ]_vars

\* two cycles got their snapshots and returned: a resolve call failed, the
\* silence-author lookup of a published alert failed, and both cycles are
\* recorded as successes
C36_Witness ==
  /\ \A r \in Runners : pc[r] = "idle"
  /\ reconciliationTotal = 2 /\ alertExportTotal = 2
  /\ reconciliationFailuresTotal = 0 /\ alertExportFailuresTotal = 0
  /\ lastReconciliationSuccess = 1
  /\ resolveFailed >= 1
  /\ \E s \in alertStateGauge :
       s.labels.suppressed = "true" /\ s.labels.silenced_by = ""


\* no goroutine of the cycle of r is running and none of its channels holds
\* a value
NothingLeftBehind(r) ==
  /\ exportPc[r] = "off" /\ resolvePc[r] = "off"
  /\ ~alertsChan[r].full /\ ~grafanaChan[r].full
  /\ resultsChan[r] = <<>>
  /\ inFlight[r] = <<>>

\* both goroutines of the work stage of r have sent their result
BothResultsSent(r) ==
  /\ exportPc[r] = "done" /\ resolvePc[r] = "done"
  /\ {resultsChan[r][i].name : i \in DOMAIN resultsChan[r]} =
        {"metrics_export", "silence_reconciliation"}

\* C37: with upstream calls that return and goroutines scheduled fairly, a
\* cycle that was entered returns; it leaves the fetch stage only when both
\* fetch results are in their channels, leaves the work stage only when
\* both goroutines have sent their result, no send finds its channel full
\* (one value in each fetch channel, two in the results channel), and once
\* the cycle has returned none of its goroutines runs and none of its
\* channels holds a value.
C37_CycleTerminatesJoined ==
  /\ \A r \in Runners : InProgress(r) ~> ~InProgress(r)
  /\ [](\A r \in Runners :
          /\ Len(resultsChan[r]) <= 2
          /\ ~InProgress(r) => NothingLeftBehind(r))
  /\ [][\A r \in Runners :
          /\ (pc[r] = "fetching" /\ pc'[r] # "fetching") =>
                alertsChan[r].full /\ grafanaChan[r].full
          /\ (pc[r] = "working" /\ pc'[r] # "working") =>
                Len(resultsChan[r]) = 2 /\ BothResultsSent(r)
          /\ Len(resultsChan'[r]) > Len(resultsChan[r]) =>
                Len(resultsChan[r]) < 2
       ]_vars

\* the loop has returned from two cycles, one at the fetch stage and one
\* after its work stage with a resolve call made, and nothing of either is
\* left
C37_Witness ==
  /\ ~InProgress("loop") /\ NothingLeftBehind("loop")
  /\ reconciliationTotal = 2 /\ reconciliationFailuresTotal = 1
  /\ alertExportTotal = 1
  /\ inconsistenciesResolved + inconsistenciesFailedResolve >= 1


(* ============================ locking claims =========================== *)
\* call i holds the read lock of client c
HoldsRLock(i, c) == i \in cacheMutex[c].readers

\* call i holds the write lock of client c
HoldsLock(i, c) == cacheMutex[c].writer = i

\* call i has its upstream GET in flight
Fetching(i) == lookups[i].pc = "fetch"

\* call j waits at cacheMutex.RLock()
AtRLock(j) == lookups[j].pc = "rlock"

\* C38: a call holds the read lock of its own client only while it reads
\* the map and the write lock only while it inserts, and holds neither
\* while its upstream GET is in flight, after it has returned (with a
\* value, a hit or an error), or on the other client; so while one call is
\* fetching, another call waiting at RLock finds the mutex free unless a
\* third call is inside its read or insertion.
C38_NoLockAcrossFetch ==
  \A i \in DOMAIN lookups : \A c \in {"silence", "user"} :
     /\ HoldsRLock(i, c) => lookups[i].cache = c /\ lookups[i].pc = "read"
     /\ HoldsLock(i, c) => lookups[i].cache = c /\ lookups[i].pc = "write"
     /\ (Fetching(i) \/ i \in Returned) => ~HoldsRLock(i, c) /\ ~HoldsLock(i, c)
     /\ Fetching(i) =>
          \A j \in DOMAIN lookups :
             (AtRLock(j) /\ lookups[j].cache = c
                /\ \A k \in DOMAIN lookups \ {i, j} : k \in Returned)
               => cacheMutex[c] = MutexFree

\* while call i has its GET for one id in flight, call j, entered after it
\* on the same client, returned a cache hit for another id
C38_Witness ==
  \E i, j \in DOMAIN lookups :
     /\ i < j
     /\ Fetching(i)
     /\ lookups[j].cache = lookups[i].cache
     /\ lookups[j].id # lookups[i].id
     /\ lookups[j].pc = "done" /\ lookups[j].hit
     /\ i \notin lookups[j].after


(* ========================= call-count claims =========================== *)
\* the resolve calls the cycle of r has made to the group id
CallsTo(r, id) ==
  Cardinality({ j \in DOMAIN calls[r] : calls[r][j].GrafanaAlertGroupID = id })

\* the inconsistent alerts of the snapshot of r whose fingerprint the
\* reconciliation index maps to the group id
TargetedAt(r, id) ==
  LET groups == grafanaChan[r].payload
      alerts == alertsChan[r].payload
  IN  Cardinality({ i \in DOMAIN alerts :
        /\ ResolvesDue(r, alerts[i]) = 1
        /\ groups[LastHolder(groups, alerts[i].fingerprint, TRUE)].id = id })

\* the reconcile goroutine of r has left its resolve loop
ResolveLoopDone(r) == pc[r] = "working" /\ resolvePc[r] = "done"

\* C39: in a cycle, at no time has a group id received more resolve calls
\* than there are inconsistent alerts whose fingerprint the index maps to
\* it, and when the resolve loop is done the number of calls is |X| and
\* every group id has received exactly as many calls as inconsistent alerts
\* are mapped to it: k calls for k alerts, none for a group no inconsistent
\* alert is mapped to.
C39_CallsPerTarget ==
  \A r \in Runners :
     pc[r] = "working" =>
       /\ \A g \in Range(GroupIds) : CallsTo(r, g) <= TargetedAt(r, g)
       /\ ResolveLoopDone(r) =>
            /\ Len(calls[r]) = SizeOfX(r)
            /\ \A g \in Range(GroupIds) : CallsTo(r, g) = TargetedAt(r, g)

\* the silenced alerts f1 and f2 are both mapped to the firing group g1,
\* which received two resolve calls in the cycle of the loop
C39_Witness ==
  /\ ResolveLoopDone("loop")
  /\ SizeOfX("loop") = 2
  /\ CallsTo("loop", "g1") = 2
  /\ \E i \in DOMAIN grafanaChan["loop"].payload :
       /\ grafanaChan["loop"].payload[i].id = "g1"
       /\ grafanaChan["loop"].payload[i].state = "firing"


(* ============================= frame claims ============================ *)
\* the step is taken by the /webhook handler
WebhookStep == webhookVars' # webhookVars

\* the step makes an UnsilenceAlertGroup or a CreateSilence call
UpstreamCallStep ==
  unsilenceCalls' # unsilenceCalls \/ silenceCalls' # silenceCalls

\* C40: a step of the /webhook handler, whatever the request and its
\* outcome, leaves the silence cache, the user cache and their mutexes, the
\* alert_state series, every reconciliation and export counter and gauge,
\* and the state of the cycles in progress as they are; AM's silences and
\* IRM's silenced groups change only in a step that makes an upstream call.
C40_WebhookFrame ==
  [][ WebhookStep =>
        /\ UNCHANGED <<caches, lookups, cacheMutex>>
        /\ UNCHANGED <<alertStateGauge, lastComplete>>
        /\ UNCHANGED <<reconCounters, itemCounters, exportCounters>>
        /\ UNCHANGED <<pc, fetchVars, exportVars, resolveVars, resultsChan,
                       inFlight, prevFailed, ctxDone>>
        /\ UNCHANGED <<env, irmLog>>
        /\ ~UpstreamCallStep => UNCHANGED <<amStore, irmSilenced>> ]_vars

\* a request is between its two CreateSilence calls while the cycle of the
\* loop has published its series, filled the silence cache and not yet
\* returned
C40_Witness ==
  /\ webhookPc = "createSilenceForAlert" /\ alertIdx = 2
  /\ Len(silenceCalls) = 1
  /\ pc["loop"] = "working" /\ exportPc["loop"] = "done"
  /\ alertStateGauge # {}
  /\ "s1" \in DOMAIN silenceCache
  /\ alertExportTotal = 1
====
